---- MODULE Spec2Model ----
(***************************************************************************)
(* AlphaRise backtest engine: runStrategies (src/src/utils/strategies.js)  *)
(* and calcMetrics (src/utils/calculations).                               *)
(*                                                                         *)
(* Number representation.  JavaScript Numbers are finite-precision; the    *)
(* model keeps every quantity as an integer count of a fixed unit and      *)
(* floors each product or quotient that is not a whole number of units:    *)
(*   money (cash, usd, val, freshInput, ...)   cents                       *)
(*   price, ema20, ema50, ema100               thousands of dollars        *)
(*   btc                                       1e-5 BTC, so that           *)
(*                                             btc * price is in cents     *)
(*   f1, f3                                    whole multipliers           *)
(*   sellFactor                                percent                     *)
(*   cbbi, t1, t3                              index points                *)
(*   date                                      YYYYMMDD, ordered like the  *)
(*                                             Date objects the code builds*)
(*   daily returns                             1e-3 (floored), or one of   *)
(*                                             NaN / Infinity / -Infinity  *)
(*                                             when the divisor is 0       *)
(***************************************************************************)
EXTENDS Integers, Sequences, FiniteSets, TLC

VARIABLES
    pc,             \* position of the engine: idle, vdca, scaled, dca, hodl, metrics, return, done
    subset,         \* argument: the series of MarketDay records
    params,         \* arguments: initialCapital, baseDCA, t1, t3, f1, f3, sellFactor, simulatePeak
    idx,            \* forEach index (0-based, as in the code)
    s_vdca,         \* V_DCA strategy state
    s_dca,          \* Standard (capital matched) DCA strategy state
    s_hodl,         \* HODL benchmark
    zones,          \* zone sequence
    cbbis,          \* sentiment sequence after the override
    stats,          \* zone counts {z1, z2, z3}
    day,            \* locals of the latest V_DCA forEach callback
    totalFreshUSD,  \* line 120
    scaledDailyDCA, \* line 121
    result,         \* the value returned by the call
    seen,           \* the caller's note of what a probe input returned last time
    metricsCall,    \* calcMetrics called on its own: the arguments
    metricsResult,  \* calcMetrics called on its own: the record returned
    broker,         \* the Alpaca side: credentials configured, cash and BTC of the account
    xpc,            \* position of executeStrategy / placeBuyOrder / placeSellOrder
    call,           \* the function called on alpaca.js and its arguments
    today,          \* todayAnalysis (line 292)
    account,        \* actualCashReserve (line 302) and totalBTC (line 304)
    results,        \* the results object of line 318, with its actions
    requests,       \* the HTTP requests the call has sent to Alpaca, in order
    ret,            \* what the call returned
    policyCall,     \* the copies of the policy applied side by side: the inputs
    policyResult,   \* the copies of the policy applied side by side: what each gave
    db,             \* database.js: the module's db, 0 for null or the number of a database
    databases,      \* the SQL.Database objects created so far: the market_data of each
    storage,        \* localStorage item alpharise_db: Null or the market_data saved
    clients,        \* the callers of initDatabase: where each is and the database it got
    upsert,         \* the latest call of upsertMarketData: its batch and how it ended
    committed,      \* the rows committed by upsertMarketData so far, latest per date
    fpc,            \* position of fetchFromAPI: idle, direct, proxy, alt, parse, done
    rawResponse,    \* rawResponse (line 33)
    fetchLog,       \* the requests fetchFromAPI has sent, in order, each with its answer
    fetchRet        \* how the call of fetchFromAPI ended

engineVars == <<pc, subset, params, idx, s_vdca, s_dca, s_hodl, zones, cbbis, stats,
                day, totalFreshUSD, scaledDailyDCA, result, seen>>

metricsVars == <<metricsCall, metricsResult>>

alpacaVars == <<broker, xpc, call, today, account, results, requests, ret>>

policyVars == <<policyCall, policyResult>>

databaseVars == <<db, databases, storage, clients, upsert, committed>>

fetchVars == <<fpc, rawResponse, fetchLog, fetchRet>>

\* What runStrategies has no access to.
otherVars == <<metricsVars, alpacaVars, policyVars, databaseVars, fetchVars>>

\* What calcMetrics has no access to.
besideMetrics == <<engineVars, alpacaVars, policyVars, databaseVars, fetchVars>>

\* What alpaca.js has no access to.
besideAlpaca == <<engineVars, metricsVars, policyVars, databaseVars, fetchVars>>

\* What the copies of the policy have no access to.
besidePolicy == <<engineVars, metricsVars, alpacaVars, databaseVars, fetchVars>>

\* What database.js has no access to.
besideDatabase == <<engineVars, metricsVars, alpacaVars, policyVars, fetchVars>>

\* What fetchFromAPI has no access to.
besideFetch == <<engineVars, metricsVars, alpacaVars, policyVars, databaseVars>>

vars == <<engineVars, metricsVars, alpacaVars, policyVars, databaseVars, fetchVars>>

----------------------------------------------------------------------------
(* Bounds and input sets *)

MaxDays == 3

Null == [k |-> "null"]

\* Market situations a day can be in: price below both averages, above both,
\* between them (ema20 < price < ema50), and equal to both with cbbi on t1.
DayKinds ==
    { [price |-> 90,  ema20 |-> 100, ema50 |-> 95,  ema100 |-> 100, cbbi |-> 55],
      [price |-> 120, ema20 |-> 110, ema50 |-> 100, ema100 |-> 100, cbbi |-> 82],
      [price |-> 100, ema20 |-> 95,  ema50 |-> 105, ema100 |-> 100, cbbi |-> 65],
      [price |-> 95,  ema20 |-> 95,  ema50 |-> 95,  ema100 |-> 100, cbbi |-> 60] }

\* Consecutive dates around the two ends of the simulatePeak window.
Calendar == <<20250714, 20250715, 20250716, 20250831, 20250901, 20250902, 20250903>>

Offsets == {0, 2}

Series ==
    UNION { { [i \in 1..n |-> [price  |-> ks[i].price,
                               ema20  |-> ks[i].ema20,
                               ema50  |-> ks[i].ema50,
                               ema100 |-> ks[i].ema100,
                               cbbi   |-> ks[i].cbbi,
                               date   |-> Calendar[off + i]]] :
                ks \in [1..n -> DayKinds], off \in Offsets } : n \in 0..MaxDays }

\* t1 < t3 is expected but not enforced: the second pair is inverted.
Thresholds == { <<60, 77>>, <<90, 50>> }

\* sellFactor is 2 percent, and 100 percent in one setting more.
Params ==
    { [initialCapital |-> ic, baseDCA |-> 2000, t1 |-> th[1], t3 |-> th[2],
       f1 |-> 10, f3 |-> f, sellFactor |-> 2, simulatePeak |-> sp] :
        ic \in {0, 3000, 150000}, th \in Thresholds, f \in {0, 2}, sp \in BOOLEAN }
    \cup { [initialCapital |-> 150000, baseDCA |-> 2000, t1 |-> 60, t3 |-> 77,
            f1 |-> 10, f3 |-> 0, sellFactor |-> 100, simulatePeak |-> FALSE] }

----------------------------------------------------------------------------
(* Arithmetic *)

Min(a, b) == IF a < b THEN a ELSE b

Max(a, b) == IF a > b THEN a ELSE b

Fin(v) == [k |-> "fin", v |-> v]
NaN    == [k |-> "NaN", v |-> 0]
PosInf == [k |-> "Infinity", v |-> 0]
NegInf == [k |-> "-Infinity", v |-> 0]

\* a / b of two money amounts, as a ratio in 1e-3; IEEE division when b = 0.
Quot(a, b) ==
    IF b = 0
    THEN (IF a = 0 THEN NaN ELSE IF a > 0 THEN PosInf ELSE NegInf)
    ELSE Fin((a * 1000) \div b)

\* r - 1 for a ratio r
MinusOne(r) == IF r.k = "fin" THEN Fin(r.v - 1000) ELSE r

\* const DAILY_INTEREST = 0.045 / 365
DAILY_INTEREST_NUM == 45
DAILY_INTEREST_DEN == 365000

\* x * DAILY_INTEREST
TimesDailyInterest(x) == (x * DAILY_INTEREST_NUM) \div DAILY_INTEREST_DEN

\* new Date(date) > new Date("2025-07-15") && new Date(date) < new Date("2025-09-01")
InPeakWindow(date) == date > 20250715 /\ date < 20250901

\* The override with both ends of the window included.
EffectiveCbbiInclusive(d, simulatePeak) ==
    IF simulatePeak /\ d.date >= 20250715 /\ d.date <= 20250901 THEN 95 ELSE d.cbbi

\* let { cbbi } = day; if (simulatePeak && ...) cbbi = 95
EffectiveCbbi(d, simulatePeak) ==
    IF simulatePeak /\ InPeakWindow(d.date) THEN 95 ELSE d.cbbi

\* Classify with the two tests in the other order.
ClassifyReductionFirst(price, ema20, ema50, cbbi, t1, t3) ==
    IF price > ema20 /\ cbbi > t3 THEN 3
    ELSE IF price < ema50 /\ cbbi < t1 THEN 1
    ELSE 2

\* The if / else-if / else chain of lines 71, 84, 97
Classify(price, ema20, ema50, cbbi, t1, t3) ==
    IF price < ema50 /\ cbbi < t1 THEN 1
    ELSE IF price > ema20 /\ cbbi > t3 THEN 3
    ELSE 2

----------------------------------------------------------------------------
(* Strategy state *)

\* let s_vdca = {...}
InitVdca(initialCapital) ==
    [btc |-> 0, usd |-> 0, cash |-> initialCapital, interest |-> 0,
     val |-> <<initialCapital>>, investedHistory |-> <<0>>, returns |-> <<>>,
     cashHistory |-> <<initialCapital>>, metrics |-> Null]

\* let s_dca = {...}
InitDca(initialCapital) ==
    [btc |-> 0, usd |-> 0, cash |-> initialCapital,
     val |-> <<initialCapital>>, investedHistory |-> <<0>>, returns |-> <<>>,
     cashHistory |-> <<initialCapital>>, metrics |-> Null]

InitStats == [z1 |-> 0, z2 |-> 0, z3 |-> 0]

NoDay == [zone |-> 0, cbbi |-> 0, dailyInt |-> 0, freshInput |-> 0,
          reserveInput |-> 0, actualBuyUSD |-> 0, sellBTC |-> 0, unspent |-> 0,
          newVal |-> 0, prevVal |-> 0]

----------------------------------------------------------------------------
(* 1. V_DCA: the body of the first forEach callback, lines 54-116 *)

\* Zone 1 with the drain not capped at the reserve.
Zone1BranchUncapped(cash, btc, price, P) ==
    LET freshInput   == P.baseDCA * P.f1
        drainTarget  == (P.baseDCA * P.f3) + (cash \div 15)
        reserveInput == drainTarget
    IN  [zone |-> 1, freshInput |-> freshInput, reserveInput |-> reserveInput,
         actualBuyUSD |-> freshInput + reserveInput,
         cash |-> cash - reserveInput, btc |-> btc,
         sellBTC |-> 0, unspent |-> 0]

\* Zone 1 (Accumulation), lines 72-81
Zone1Branch(cash, btc, price, P) ==
    LET freshInput   == P.baseDCA * P.f1
        drainTarget  == (P.baseDCA * P.f3) + (cash \div 15)
        reserveInput == Min(cash, drainTarget)
    IN  [zone |-> 1, freshInput |-> freshInput, reserveInput |-> reserveInput,
         actualBuyUSD |-> freshInput + reserveInput,
         cash |-> cash - reserveInput, btc |-> btc,
         sellBTC |-> 0, unspent |-> 0]

\* Zone 3 without the test unspent > 0.
Zone3BranchBanksAlways(cash, btc, price, P) ==
    LET freshInput == P.baseDCA * P.f3
        sellBTC    == (btc * P.sellFactor) \div 100
        cashSold   == cash + sellBTC * price
        unspent    == P.baseDCA - freshInput
    IN  [zone |-> 3, freshInput |-> freshInput, reserveInput |-> 0,
         actualBuyUSD |-> freshInput,
         cash |-> cashSold + unspent,
         btc |-> btc - sellBTC,
         sellBTC |-> sellBTC, unspent |-> unspent]

\* Zone 3 selling sellFactor times the holding instead of sellFactor
\* hundredths of it.
Zone3BranchSellsMultiple(cash, btc, price, P) ==
    LET freshInput == P.baseDCA * P.f3
        sellBTC    == btc * P.sellFactor
        cashSold   == cash + sellBTC * price
        unspent    == P.baseDCA - freshInput
    IN  [zone |-> 3, freshInput |-> freshInput, reserveInput |-> 0,
         actualBuyUSD |-> freshInput,
         cash |-> IF unspent > 0 THEN cashSold + unspent ELSE cashSold,
         btc |-> btc - sellBTC,
         sellBTC |-> sellBTC, unspent |-> unspent]

\* Zone 3 (Reduction), lines 85-95
Zone3Branch(cash, btc, price, P) ==
    LET freshInput == P.baseDCA * P.f3
        sellBTC    == (btc * P.sellFactor) \div 100
        cashSold   == cash + sellBTC * price
        unspent    == P.baseDCA - freshInput
    IN  [zone |-> 3, freshInput |-> freshInput, reserveInput |-> 0,
         actualBuyUSD |-> freshInput,
         cash |-> IF unspent > 0 THEN cashSold + unspent ELSE cashSold,
         btc |-> btc - sellBTC,
         sellBTC |-> sellBTC, unspent |-> unspent]

\* Zone 2 buying the accumulation amount.
Zone2BranchBoosted(cash, btc, price, P) ==
    [zone |-> 2, freshInput |-> P.baseDCA, reserveInput |-> 0,
     actualBuyUSD |-> P.baseDCA * P.f1, cash |-> cash, btc |-> btc,
     sellBTC |-> 0, unspent |-> 0]

\* Zone 2 (Neutral), lines 65-68 and 98-100
Zone2Branch(cash, btc, price, P) ==
    [zone |-> 2, freshInput |-> P.baseDCA, reserveInput |-> 0,
     actualBuyUSD |-> P.baseDCA, cash |-> cash, btc |-> btc,
     sellBTC |-> 0, unspent |-> 0]

\* The counts with Reduction days counted as Neutral.
CountZoneTwoWay(st, zone) ==
    IF zone = 1 THEN [st EXCEPT !.z1 = @ + 1]
    ELSE [st EXCEPT !.z2 = @ + 1]

\* s_vdca.usd += the whole buy, drained reserve included.
ContributedTotalBuy(usd, br) == usd + br.actualBuyUSD

\* s_vdca.usd += freshInput, line 105
Contributed(usd, br) == usd + br.freshInput

\* stats.z1++ / stats.z3++ / stats.z2++
CountZone(st, zone) ==
    IF zone = 1 THEN [st EXCEPT !.z1 = @ + 1]
    ELSE IF zone = 3 THEN [st EXCEPT !.z3 = @ + 1]
    ELSE [st EXCEPT !.z2 = @ + 1]

\* One day of V_DCA with the interest of lines 61-63 applied after the
\* branch instead of before it.
VdcaDayInterestLast(s, d, P) ==
    LET cbbi     == EffectiveCbbi(d, P.simulatePeak)
        zone     == Classify(d.price, d.ema20, d.ema50, cbbi, P.t1, P.t3)
        br       == IF zone = 1 THEN Zone1Branch(s.cash, s.btc, d.price, P)
                    ELSE IF zone = 3 THEN Zone3Branch(s.cash, s.btc, d.price, P)
                    ELSE Zone2Branch(s.cash, s.btc, d.price, P)
        dailyInt == TimesDailyInterest(br.cash)
        cash2    == br.cash + dailyInt
        btc2     == br.btc + (br.actualBuyUSD \div d.price)
        usd2     == Contributed(s.usd, br)
        newVal   == (btc2 * d.price) + cash2
        prevVal  == s.val[Len(s.val)]
        dailyRet == MinusOne(Quot(newVal - br.freshInput, prevVal))
    IN  [s |-> [s EXCEPT !.btc = btc2,
                         !.usd = usd2,
                         !.cash = cash2,
                         !.interest = @ + dailyInt,
                         !.val = Append(@, newVal),
                         !.investedHistory = Append(@, usd2),
                         !.cashHistory = Append(@, cash2),
                         !.returns = Append(@, dailyRet)],
         day |-> [zone |-> br.zone, cbbi |-> cbbi, dailyInt |-> dailyInt,
                  freshInput |-> br.freshInput, reserveInput |-> br.reserveInput,
                  actualBuyUSD |-> br.actualBuyUSD, sellBTC |-> br.sellBTC,
                  unspent |-> br.unspent, newVal |-> newVal, prevVal |-> prevVal]]

\* One simulated day of V_DCA on strategy state s: interest (61-63),
\* branch (65-101), execute (104-105), record (107-114).
VdcaDay(s, d, P) ==
    LET cbbi     == EffectiveCbbi(d, P.simulatePeak)
        dailyInt == TimesDailyInterest(s.cash)
        cash1    == s.cash + dailyInt
        zone     == Classify(d.price, d.ema20, d.ema50, cbbi, P.t1, P.t3)
        br       == IF zone = 1 THEN Zone1Branch(cash1, s.btc, d.price, P)
                    ELSE IF zone = 3 THEN Zone3Branch(cash1, s.btc, d.price, P)
                    ELSE Zone2Branch(cash1, s.btc, d.price, P)
        btc2     == br.btc + (br.actualBuyUSD \div d.price)
        usd2     == Contributed(s.usd, br)
        newVal   == (btc2 * d.price) + br.cash
        prevVal  == s.val[Len(s.val)]
        dailyRet == MinusOne(Quot(newVal - br.freshInput, prevVal))
    IN  [s |-> [s EXCEPT !.btc = btc2,
                         !.usd = usd2,
                         !.cash = br.cash,
                         !.interest = @ + dailyInt,
                         !.val = Append(@, newVal),
                         !.investedHistory = Append(@, usd2),
                         !.cashHistory = Append(@, br.cash),
                         !.returns = Append(@, dailyRet)],
         day |-> [zone |-> br.zone, cbbi |-> cbbi, dailyInt |-> dailyInt,
                  freshInput |-> br.freshInput, reserveInput |-> br.reserveInput,
                  actualBuyUSD |-> br.actualBuyUSD, sellBTC |-> br.sellBTC,
                  unspent |-> br.unspent, newVal |-> newVal, prevVal |-> prevVal]]

----------------------------------------------------------------------------
(* 2. Scaled DCA: lines 120-144 *)

\* The division by the number of days, the seed day included.
ScaledDailyAllDays(total, n) == total \div n

\* totalFreshUSD / (subset.length - 1 || 1)
ScaledDaily(total, n) == total \div (IF n - 1 = 0 THEN 1 ELSE n - 1)

\* The Baseline day without the push to cashHistory.
DcaDayNoCashHistory(s, d, scaled) ==
    LET dailyInt == TimesDailyInterest(s.cash)
        cash1    == s.cash + dailyInt
        prevVal  == s.val[Len(s.val)]
        btc2     == s.btc + (scaled \div d.price)
        usd2     == s.usd + scaled
        newVal   == (btc2 * d.price) + cash1
        dailyRet == MinusOne(Quot(newVal - scaled, prevVal))
    IN  [s EXCEPT !.btc = btc2,
                  !.usd = usd2,
                  !.cash = cash1,
                  !.val = Append(@, newVal),
                  !.investedHistory = Append(@, usd2),
                  !.returns = Append(@, dailyRet)]

\* The Baseline day paying its contribution out of the reserve.
DcaDayFromReserve(s, d, scaled) ==
    LET dailyInt == TimesDailyInterest(s.cash)
        cash1    == (s.cash + dailyInt) - Min(s.cash + dailyInt, scaled)
        prevVal  == s.val[Len(s.val)]
        btc2     == s.btc + (scaled \div d.price)
        usd2     == s.usd + scaled
        newVal   == (btc2 * d.price) + cash1
        dailyRet == MinusOne(Quot(newVal - scaled, prevVal))
    IN  [s EXCEPT !.btc = btc2,
                  !.usd = usd2,
                  !.cash = cash1,
                  !.val = Append(@, newVal),
                  !.investedHistory = Append(@, usd2),
                  !.cashHistory = Append(@, cash1),
                  !.returns = Append(@, dailyRet)]

\* The body of the second forEach callback, lines 126-143
DcaDay(s, d, scaled) ==
    LET dailyInt == TimesDailyInterest(s.cash)
        cash1    == s.cash + dailyInt
        prevVal  == s.val[Len(s.val)]
        btc2     == s.btc + (scaled \div d.price)
        usd2     == s.usd + scaled
        newVal   == (btc2 * d.price) + cash1
        dailyRet == MinusOne(Quot(newVal - scaled, prevVal))
    IN  [s EXCEPT !.btc = btc2,
                  !.usd = usd2,
                  !.cash = cash1,
                  !.val = Append(@, newVal),
                  !.investedHistory = Append(@, usd2),
                  !.cashHistory = Append(@, cash1),
                  !.returns = Append(@, dailyRet)]

----------------------------------------------------------------------------
(* 3. Smart HODL: lines 148-166 *)

\* The benchmark buying with the initial capital only.
HodlInitialOnly(sub, initialCapital, total, vdcaUsd) ==
    LET startPrice     == sub[1].price
        totalHodlBTC   == initialCapital \div startPrice
        hodlVals       == [i \in 1..Len(sub) |-> totalHodlBTC * sub[i].price]
        hodlInv        == [i \in 1..Len(sub) |-> vdcaUsd]
        hodlReturns    == [i \in 1..(Len(sub) - 1) |->
                             Quot(hodlVals[i + 1] - hodlVals[i], hodlVals[i])]
    IN  [btc |-> totalHodlBTC, usd |-> vdcaUsd, val |-> hodlVals,
         investedHistory |-> hodlInv, returns |-> hodlReturns, metrics |-> Null]

\* Lines 148-166: units, values, invested amounts and returns of s_hodl
Hodl(sub, initialCapital, total, vdcaUsd) ==
    LET startPrice          == sub[1].price
        hodlInitialBTC      == initialCapital \div startPrice
        hodlContributionBTC == total \div startPrice
        totalHodlBTC        == hodlInitialBTC + hodlContributionBTC
        hodlVals            == [i \in 1..Len(sub) |-> totalHodlBTC * sub[i].price]
        hodlInv             == [i \in 1..Len(sub) |-> vdcaUsd]
        hodlReturns         == [i \in 1..(Len(sub) - 1) |->
                                  Quot(hodlVals[i + 1] - hodlVals[i], hodlVals[i])]
    IN  [btc |-> totalHodlBTC, usd |-> vdcaUsd, val |-> hodlVals,
         investedHistory |-> hodlInv, returns |-> hodlReturns, metrics |-> Null]

----------------------------------------------------------------------------
(* calcMetrics (src/utils/calculations) *)

RECURSIVE SumSeq(_)
SumSeq(q) == IF q = <<>> THEN 0 ELSE q[1] + SumSeq(Tail(q))

RECURSIVE SqrtBetween(_, _, _)
SqrtBetween(n, lo, hi) ==
    IF lo >= hi THEN lo
    ELSE LET mid == (lo + hi + 1) \div 2
         IN  IF mid * mid <= n THEN SqrtBetween(n, mid, hi)
             ELSE SqrtBetween(n, lo, mid - 1)

\* Math.sqrt on a non-negative integer, floored
Sqrt(n) == SqrtBetween(n, 0, Min(n, 46340))

----------------------------------------------------------------------------
(* The JavaScript Number (IEEE 754 binary64) where its rounding decides a   *)
(* branch: a positive normal value is M * 2^e with the 53-bit mantissa      *)
(* M = hi * 2^26 + lo, 2^26 <= hi < 2^27, 0 <= lo < 2^26; every operation   *)
(* rounds to nearest, ties to even.                                         *)

Limb == 67108864

TopLimb == 134217728

RECURSIVE Pow2(_)
Pow2(k) == IF k = 0 THEN 1 ELSE 2 * Pow2(k - 1)

Abs(x) == IF x < 0 THEN 0 - x ELSE x

\* The next k binary digits of rem / den (0 <= rem < den) after those in acc.
RECURSIVE Digits(_, _, _, _)
Digits(rem, den, k, acc) ==
    IF k = 0 THEN [q |-> acc, rem |-> rem]
    ELSE IF 2 * rem >= den THEN Digits((2 * rem) - den, den, k - 1, (2 * acc) + 1)
    ELSE Digits(2 * rem, den, k - 1, 2 * acc)

\* The mantissa one unit in the last place up.
NextUp(hi, lo, e) ==
    IF lo + 1 < Limb THEN [hi |-> hi, lo |-> lo + 1, e |-> e]
    ELSE IF hi + 1 < TopLimb THEN [hi |-> hi + 1, lo |-> 0, e |-> e]
    ELSE [hi |-> Limb, lo |-> 0, e |-> e + 1]

\* Round to nearest, ties to even: rem out of den is what was cut off.
Rounded(hi, lo, e, rem, den) ==
    IF 2 * rem > den \/ (2 * rem = den /\ lo % 2 = 1) THEN NextUp(hi, lo, e)
    ELSE [hi |-> hi, lo |-> lo, e |-> e]

\* The Number a return of v thousandths (v > 0) is: v / 1000 correctly rounded.
FromThousandths(v) ==
    LET up   == CHOOSE t \in 0..20 : 1000 * Pow2(t) <= v /\ v < 1000 * Pow2(t + 1)
        down == CHOOSE t \in 1..20 : 1000 <= v * Pow2(t) /\ v * Pow2(t) < 2000
        num  == IF v >= 1000 THEN v ELSE v * Pow2(down)
        den  == IF v >= 1000 THEN 1000 * Pow2(up) ELSE 1000
        e    == (IF v >= 1000 THEN up ELSE 0 - down) - 52
        top  == Digits(num - den, den, 26, 1)
        low  == Digits(top.rem, den, 26, 0)
    IN  Rounded(top.q, low.q, e, low.rem, den)

\* x + y for x >= y > 0 (the running sum of a reduce over equal numbers).
Plus(x, y) ==
    LET d    == x.e - y.e
        xlo  == x.lo * Pow2(d)
        slo  == (xlo % Limb) + y.lo
        shi  == (x.hi * Pow2(d)) + (xlo \div Limb) + y.hi + (slo \div Limb)
        lo   == slo % Limb
        sh   == CHOOSE k \in 0..5 : (shi \div Pow2(k)) < TopLimb /\ (shi \div Pow2(k)) >= Limb
        cut  == Pow2(sh)
        rem  == lo % cut
        lo2  == (((shi % cut) * Limb) + lo) \div cut
    IN  Rounded(shi \div cut, lo2, y.e + sh, rem, cut)

\* x / n for x > 0 and a small whole n (sum / returns.length).
Over(x, n) ==
    LET qhi(k) == (x.hi * Pow2(k) + ((x.lo * Pow2(k)) \div Limb)) \div n
        k      == CHOOSE j \in 0..5 : qhi(j) >= Limb /\ qhi(j) < TopLimb
        lo     == (x.lo * Pow2(k)) % Limb
        hi     == x.hi * Pow2(k) + ((x.lo * Pow2(k)) \div Limb)
        t      == ((hi % n) * Limb) + lo
    IN  Rounded(hi \div n, t \div n, x.e - k, t % n, n)

\* returns.reduce((a, b) => a + b, 0) over n copies of x: 0 + x is x.
RECURSIVE SumOfCopies(_, _)
SumOfCopies(x, n) == IF n = 1 THEN x ELSE Plus(SumOfCopies(x, n - 1), x)

\* Lines 29-31 on n returns all equal to v thousandths: r - mean is 0 for
\* every r exactly when the rounded mean is r again (the sign plays no part).
MeanOfEqualsIsExact(v, n) ==
    v = 0 \/ Over(SumOfCopies(FromThousandths(Abs(v)), n), n) = FromThousandths(Abs(v))

\* The result for fewer than 2 returns, lines 25-27: "0.00", "0.00", "0.0"
ZeroMetrics == [sharpe |-> Fin(0), sortino |-> Fin(0), yoy |-> Fin(0)]

\* Lines 42-51 and 56.  totalRetPct = profit / avgCapital with avgCapital =
\* sum(investedHistory) / length.  The power is not evaluated: the result
\* keeps its base 1 + totalRetPct (in 1e-3) under the tag "pow"; the exponent
\* is 1 / years = 365 / returns.length.
AnnualizedReturn(n, investedHistory, values) ==
    LET endVal     == values[Len(values)]
        profit     == endVal - investedHistory[Len(investedHistory)]
        capitalSum == SumSeq(investedHistory)
        m          == Len(investedHistory)
    IN  IF n > 0 /\ capitalSum > 0
        THEN [k |-> "pow", v |-> 1000 + ((profit * m * 1000) \div capitalSum)]
        ELSE Fin(0)

\* annualStd || 1 and annualDownStd || 1, lines 39-40, from the variance in
\* 1e-6: 1 when the variance is zero, else sqrt(variance) * sqrt(365) in
\* 1e-3 (at least one unit, a non-zero deviation is never rounded to zero).
StdOrOne(variance) == IF variance = 0 THEN 1000 ELSE Max(1, Sqrt(variance * 365))

\* All returns are the same number.
IsConstant(r) == \A i \in 1..Len(r) : r[i] = r[1]

\* The quotient of lines 39-40 when the deviation under it is what the
\* rounding of the mean left of an exact 0: a deviation of the order of
\* 1e-16 times the return, not falsy, so that || 1 does not apply.  The
\* magnitude is beyond the hundredths kept here; the sign is kept.
Huge(num) == [k |-> "huge", v |-> IF num < 0 THEN -1 ELSE 1]

\* Lines 29-40 when every return is finite.  With n = returns.length and
\* dev[i] = n * (r[i] - mean): variance = sum(dev[i]^2) / n^3 and
\* downVariance = sum(r[i]^2 : r[i] < 0) / n.  sharpe and sortino are in 1e-2
\* (toFixed(2)).  With equal returns the variance is 0 only if the mean of
\* line 30 is rounded to the return.
FiniteRatios(returns) ==
    LET n            == Len(returns)
        r            == [i \in 1..n |-> returns[i].v]
        sum          == SumSeq(r)
        devSq        == [i \in 1..n |-> (n * r[i] - sum) * (n * r[i] - sum)]
        variance     == IF SumSeq(devSq) = 0 THEN 0
                        ELSE Max(1, SumSeq(devSq) \div (n * n * n))
        downSq       == [i \in 1..n |-> IF r[i] < 0 THEN r[i] * r[i] ELSE 0]
        downVariance == IF SumSeq(downSq) = 0 THEN 0
                        ELSE Max(1, SumSeq(downSq) \div n)
        rf           == 45
        annualMean   == (sum * 365) \div n
        inexact      == IsConstant(r) /\ ~MeanOfEqualsIsExact(r[1], n)
    IN  [sharpe  |-> IF inexact THEN Huge(annualMean - rf)
                     ELSE Fin(((annualMean - rf) * 100) \div StdOrOne(variance)),
         sortino |-> Fin(((annualMean - rf) * 100) \div StdOrOne(downVariance))]

\* Lines 29-40 when a return is NaN or +-Infinity.  The sum and the mean are
\* NaN, or the infinity present; the variance is NaN (it holds Infinity -
\* Infinity or NaN), so annualStd || 1 is 1 and sharpe is the mean's kind.
\* downVariance skips NaN and +Infinity (r < 0 is false) and is Infinity
\* when a return is -Infinity: sortino is then -Infinity / Infinity = NaN.
NonFiniteRatios(returns) ==
    LET has(kind) == \E i \in 1..Len(returns) : returns[i].k = kind
        mean      == IF has("NaN") \/ (has("Infinity") /\ has("-Infinity")) THEN NaN
                     ELSE IF has("Infinity") THEN PosInf
                     ELSE NegInf
    IN  [sharpe  |-> mean,
         sortino |-> IF mean = PosInf THEN PosInf ELSE NaN]

AllFinite(returns) == \A i \in 1..Len(returns) : returns[i].k = "fin"

\* A JavaScript argument: an array, or undefined when it is missing.
Undefined == [k |-> "undefined"]
Array(q)  == [k |-> "array", v |-> q]

\* The outcome of a call that throws on reading a member of undefined.
TypeError == [k |-> "TypeError"]

\* calcMetrics with the test on the return sequence accepting one return.
calcMetricsOneReturnEnough(returns, investedHistory, values) ==
    IF returns = Undefined \/ Len(returns.v) < 1 THEN ZeroMetrics
    ELSE IF values = Undefined \/ investedHistory = Undefined THEN TypeError
    ELSE LET ratios == IF AllFinite(returns.v) THEN FiniteRatios(returns.v)
                       ELSE NonFiniteRatios(returns.v)
         IN  [sharpe  |-> ratios.sharpe,
              sortino |-> ratios.sortino,
              yoy     |-> AnnualizedReturn(Len(returns.v), investedHistory.v, values.v)]

\* export const calcMetrics = (returns, investedHistory, values) => ...
\* Line 25 returns before values (line 42) or investedHistory (line 44) is
\* read; reading a member of a missing one throws.
calcMetrics(returns, investedHistory, values) ==
    IF returns = Undefined \/ Len(returns.v) < 2 THEN ZeroMetrics
    ELSE IF values = Undefined \/ investedHistory = Undefined THEN TypeError
    ELSE LET ratios == IF AllFinite(returns.v) THEN FiniteRatios(returns.v)
                       ELSE NonFiniteRatios(returns.v)
         IN  [sharpe  |-> ratios.sharpe,
              sortino |-> ratios.sortino,
              yoy     |-> AnnualizedReturn(Len(returns.v), investedHistory.v, values.v)]

----------------------------------------------------------------------------
(* RecommendationCard (src/components/RecommendationCard.jsx), lines 6-29:  *)
(* the zone shown for the snapshot and the amounts of its action.           *)

\* Math.round of an amount in cents, to whole dollars (kept in cents)
RoundDollars(x) == ((x + 50) \div 100) * 100

RecommendationCard(recData, P) ==
    IF recData.price < recData.ema50 /\ recData.cbbi < P.t1
    THEN LET target      == P.baseDCA * P.f1
             drain       == (P.baseDCA * P.f3) + (recData.cash \div 15)
             fromReserve == Min(recData.cash, drain)
         IN  [zone |-> 1, buy |-> RoundDollars(target + fromReserve),
              target |-> target, fromReserve |-> fromReserve, save |-> 0]
    ELSE IF recData.price > recData.ema20 /\ recData.cbbi > P.t3
    THEN [zone |-> 3, buy |-> P.baseDCA * P.f3,
          target |-> 0, fromReserve |-> 0, save |-> P.baseDCA - (P.baseDCA * P.f3)]
    ELSE [zone |-> 2, buy |-> P.baseDCA, target |-> 0, fromReserve |-> 0, save |-> 0]

----------------------------------------------------------------------------
(* runStrategies as a sequence of steps *)

Inputs == Series \X Params

\* Inputs whose earlier result the caller keeps for comparison.
Probes ==
    { in \in Inputs : /\ Len(in[1]) = MaxDays
                      /\ in[1][1].price = 100
                      /\ \A i \in 2..MaxDays : in[1][i].price = (IF i % 2 = 0 THEN 90 ELSE 120)
                      /\ in[1][1].date = Calendar[1]
                      /\ in[2].initialCapital = 150000
                      /\ in[2].t1 = 60 /\ ~in[2].simulatePeak }

\* No call of runStrategies is in progress and none has been made.
EngineIdle ==
    /\ pc = "idle"
    /\ subset = <<>>
    /\ params = Null
    /\ idx = 0
    /\ s_vdca = Null
    /\ s_dca = Null
    /\ s_hodl = Null
    /\ zones = <<>>
    /\ cbbis = <<>>
    /\ stats = InitStats
    /\ day = NoDay
    /\ totalFreshUSD = 0
    /\ scaledDailyDCA = 0
    /\ result = Null
    /\ seen = Null

\* No call on alpaca.js is in progress and none has been made.
ExecutionIdle ==
    /\ xpc = "idle"
    /\ call = Null
    /\ today = Null
    /\ account = Null
    /\ results = Null
    /\ requests = <<>>
    /\ ret = Null

\* No call of calcMetrics on its own.
MetricsIdle == metricsCall = Null /\ metricsResult = Null

\* The policy copies are not being compared.
PolicyIdle == policyCall = Null /\ policyResult = Null

\* The callers of initDatabase.
Clients == {"fetchRealData", "exportMarketDataCSV"}

\* database.js as loaded (lines 3-4): no database, nobody has called.
DatabaseUnused ==
    /\ db = 0
    /\ databases = <<>>
    /\ storage = Null
    /\ clients = [c \in Clients |-> [at |-> "out", handle |-> 0]]
    /\ upsert = Null
    /\ committed = {}

\* Nobody has called fetchFromAPI.
FetchIdle ==
    /\ fpc = "idle"
    /\ rawResponse = Undefined
    /\ fetchLog = <<>>
    /\ fetchRet = Null

Init ==
    /\ EngineIdle
    /\ MetricsIdle
    /\ broker = Null
    /\ ExecutionIdle
    /\ PolicyIdle
    /\ DatabaseUnused
    /\ FetchIdle

\* The entry without the empty-series return of line 14.
CallSimulatesEmpty(sub, P) ==
    /\ pc = "idle"
    /\ subset' = sub
    /\ params' = P
    /\ idx' = 0
    /\ day' = NoDay
    /\ totalFreshUSD' = 0
    /\ scaledDailyDCA' = 0
    /\ s_hodl' = Null
    /\ pc' = "vdca"
    /\ result' = Null
    /\ s_vdca' = InitVdca(P.initialCapital)
    /\ s_dca' = InitDca(P.initialCapital)
    /\ zones' = <<>>
    /\ cbbis' = <<>>
    /\ stats' = InitStats
    /\ UNCHANGED seen
    /\ UNCHANGED otherVars

\* The entry with the zone counts kept in a variable that outlives the call.
CallKeepsStats(sub, P) ==
    /\ pc = "idle"
    /\ subset' = sub
    /\ params' = P
    /\ idx' = 0
    /\ day' = NoDay
    /\ totalFreshUSD' = 0
    /\ scaledDailyDCA' = 0
    /\ s_hodl' = Null
    /\ IF Len(sub) = 0
       THEN /\ pc' = "done"
            /\ result' = Null
            /\ UNCHANGED <<s_vdca, s_dca, zones, cbbis, stats>>
       ELSE /\ pc' = "vdca"
            /\ result' = Null
            /\ s_vdca' = InitVdca(P.initialCapital)
            /\ s_dca' = InitDca(P.initialCapital)
            /\ zones' = <<>>
            /\ cbbis' = <<>>
            /\ UNCHANGED stats
    /\ UNCHANGED seen
    /\ UNCHANGED otherVars

\* Lines 3-48: entry, the empty-series return, the initial strategy states.
Call(sub, P) ==
    /\ pc = "idle"
    /\ subset' = sub
    /\ params' = P
    /\ idx' = 0
    /\ day' = NoDay
    /\ totalFreshUSD' = 0
    /\ scaledDailyDCA' = 0
    /\ s_hodl' = Null
    /\ IF Len(sub) = 0
       THEN /\ pc' = "done"
            /\ result' = Null
            /\ UNCHANGED <<s_vdca, s_dca, zones, cbbis, stats>>
       ELSE /\ pc' = "vdca"
            /\ result' = Null
            /\ s_vdca' = InitVdca(P.initialCapital)
            /\ s_dca' = InitDca(P.initialCapital)
            /\ zones' = <<>>
            /\ cbbis' = <<>>
            /\ stats' = InitStats
    /\ UNCHANGED seen
    /\ UNCHANGED otherVars

\* The first callback without the return of line 52.
VdcaCallbackOnSeedDay ==
    /\ pc = "vdca"
    /\ idx < Len(subset)
    /\ idx' = idx + 1
    /\ LET d == VdcaDay(s_vdca, subset[idx + 1], params)
       IN  /\ s_vdca' = d.s
           /\ day' = d.day
           /\ cbbis' = Append(cbbis, d.day.cbbi)
           /\ stats' = CountZone(stats, d.day.zone)
           /\ zones' = Append(zones, d.day.zone)
    /\ UNCHANGED <<pc, subset, params, s_dca, s_hodl, totalFreshUSD, scaledDailyDCA, result, seen>>
    /\ UNCHANGED otherVars

\* Lines 51-117: one callback of the first subset.forEach.
VdcaCallback ==
    /\ pc = "vdca"
    /\ idx < Len(subset)
    /\ idx' = idx + 1
    /\ IF idx = 0
       THEN UNCHANGED <<s_vdca, zones, cbbis, stats, day>>
       ELSE LET d == VdcaDay(s_vdca, subset[idx + 1], params)
            IN  /\ s_vdca' = d.s
                /\ day' = d.day
                /\ cbbis' = Append(cbbis, d.day.cbbi)
                /\ stats' = CountZone(stats, d.day.zone)
                /\ zones' = Append(zones, d.day.zone)
    /\ UNCHANGED <<pc, subset, params, s_dca, s_hodl, totalFreshUSD, scaledDailyDCA, result, seen>>
    /\ UNCHANGED otherVars

\* Lines 120-121, reached when the first forEach is over.
ScaledDCA ==
    /\ pc = "vdca"
    /\ idx = Len(subset)
    /\ totalFreshUSD' = s_vdca.usd
    /\ scaledDailyDCA' = ScaledDaily(s_vdca.usd, Len(subset))
    /\ pc' = "dca"
    /\ idx' = 0
    /\ UNCHANGED <<subset, params, s_vdca, s_dca, s_hodl, zones, cbbis, stats, day, result, seen>>
    /\ UNCHANGED otherVars

\* Lines 123-144: one callback of the second subset.forEach.
DcaCallback ==
    /\ pc = "dca"
    /\ idx < Len(subset)
    /\ idx' = idx + 1
    /\ IF idx = 0
       THEN UNCHANGED s_dca
       ELSE s_dca' = DcaDay(s_dca, subset[idx + 1], scaledDailyDCA)
    /\ UNCHANGED <<pc, subset, params, s_vdca, s_hodl, zones, cbbis, stats, day,
                   totalFreshUSD, scaledDailyDCA, result, seen>>
    /\ UNCHANGED otherVars

\* Lines 146-166
SmartHodl ==
    /\ pc = "dca"
    /\ idx = Len(subset)
    /\ s_hodl' = Hodl(subset, params.initialCapital, totalFreshUSD, s_vdca.usd)
    /\ pc' = "metrics"
    /\ UNCHANGED <<subset, params, idx, s_vdca, s_dca, zones, cbbis, stats, day,
                   totalFreshUSD, scaledDailyDCA, result, seen>>
    /\ UNCHANGED otherVars

\* Lines 168-170
Metrics ==
    /\ pc = "metrics"
    /\ s_hodl' = [s_hodl EXCEPT !.metrics =
           calcMetrics(Array(s_hodl.returns), Array(s_hodl.investedHistory), Array(s_hodl.val))]
    /\ s_dca' = [s_dca EXCEPT !.metrics =
           calcMetrics(Array(s_dca.returns), Array(s_dca.investedHistory), Array(s_dca.val))]
    /\ s_vdca' = [s_vdca EXCEPT !.metrics =
           calcMetrics(Array(s_vdca.returns), Array(s_vdca.investedHistory), Array(s_vdca.val))]
    /\ pc' = "return"
    /\ UNCHANGED <<subset, params, idx, zones, cbbis, stats, day,
                   totalFreshUSD, scaledDailyDCA, result, seen>>
    /\ UNCHANGED otherVars

\* Lines 172-193
Return ==
    /\ pc = "return"
    /\ LET last == subset[Len(subset)]
           recData == [date |-> last.date, price |-> last.price, cbbi |-> last.cbbi,
                       ema20 |-> last.ema20, ema50 |-> last.ema50, ema100 |-> last.ema100,
                       cash |-> s_vdca.cash, interest |-> s_vdca.interest]
       IN  result' = [k |-> "result",
                      dates |-> [i \in 1..Len(subset) |-> subset[i].date],
                      prices |-> [i \in 1..Len(subset) |-> subset[i].price],
                      zones |-> zones,
                      cbbis |-> cbbis,
                      strategies |-> <<s_hodl, s_dca, s_vdca>>,
                      recData |-> recData,
                      zoneStats |-> stats]
    /\ pc' = "done"
    /\ UNCHANGED <<subset, params, idx, s_vdca, s_dca, s_hodl, zones, cbbis, stats, day,
                   totalFreshUSD, scaledDailyDCA, seen>>
    /\ UNCHANGED otherVars

\* The caller (App.jsx, lines 69-85) takes the result; the call's locals are
\* gone, the returned zoneStats object lives on in the caller's state.
Collect ==
    /\ pc = "done"
    /\ seen' = IF <<subset, params>> \in Probes
               THEN [k |-> "seen", subset |-> subset, params |-> params, result |-> result]
               ELSE seen
    /\ pc' = "idle"
    /\ subset' = <<>>
    /\ params' = Null
    /\ idx' = 0
    /\ s_vdca' = Null
    /\ s_dca' = Null
    /\ s_hodl' = Null
    /\ zones' = <<>>
    /\ cbbis' = <<>>
    /\ day' = NoDay
    /\ totalFreshUSD' = 0
    /\ scaledDailyDCA' = 0
    /\ result' = Null
    /\ UNCHANGED stats
    /\ UNCHANGED otherVars

\* App.jsx lines 63-86: the effect re-runs the engine whenever the data or a
\* parameter changes.
Invoke == pc = "idle" /\ \E in \in Inputs : Call(in[1], in[2])

Next ==
    \/ Invoke
    \/ VdcaCallback
    \/ ScaledDCA
    \/ DcaCallback
    \/ SmartHodl
    \/ Metrics
    \/ Return
    \/ Collect

Spec == Init /\ [][Next]_vars

----------------------------------------------------------------------------
(* calcMetrics called on its own *)

MaxReturns == 3

\* Daily returns in thousandths: a loss, none, 1 % and 10 %.
ReturnValues == {-20, 0, 10, 100}

ReturnSeries == UNION { [1..n -> {Fin(v) : v \in ReturnValues}] : n \in 0..MaxReturns }

\* Arguments as runStrategies builds them: n returns, n + 1 invested amounts
\* (nothing contributed, or baseDCA a day) and n + 1 values (a gain or a
\* loss on the last day); and the call without arguments.
MetricsInputs ==
    { [returns         |-> Array(q),
       investedHistory |-> Array([i \in 1..(Len(q) + 1) |-> (i - 1) * c]),
       values          |-> Array([i \in 1..(Len(q) + 1) |-> 150000 + ((i - 1) * g)])] :
          q \in ReturnSeries, c \in {0, 2000}, g \in {-3000, 2500} }
    \cup { [returns |-> Undefined, investedHistory |-> Undefined, values |-> Undefined] }

MetricsInit ==
    /\ EngineIdle
    /\ metricsCall \in MetricsInputs
    /\ metricsResult = Null
    /\ broker = Null
    /\ ExecutionIdle
    /\ PolicyIdle
    /\ DatabaseUnused
    /\ FetchIdle

\* The call: the arguments are not modified.
CalcMetricsCall ==
    /\ metricsResult = Null
    /\ metricsResult' = calcMetrics(metricsCall.returns, metricsCall.investedHistory,
                                    metricsCall.values)
    /\ UNCHANGED <<metricsCall, besideMetrics>>

MetricsNext == CalcMetricsCall

MetricsSpec == MetricsInit /\ [][MetricsNext]_vars

----------------------------------------------------------------------------
(* Execution on Alpaca (src/utils/alpaca.js, src/utils/strategyHelpers).   *)
(* Cash and amounts in cents, BTC quantities in 1e-5 BTC.                  *)

\* calculateAndStoreDailyAnalysis, analysis.js lines 26-39: the zone and
\* the recommendation stored for a day.
DailyAnalysis(d, t1, t3) ==
    IF d.price < d.ema50 /\ d.cbbi < t1 THEN [zone |-> 1, recommendation |-> "accumulate"]
    ELSE IF d.price > d.ema20 /\ d.cbbi > t3 THEN [zone |-> 3, recommendation |-> "reduce"]
    ELSE [zone |-> 2, recommendation |-> "neutral"]

\* What the call of lines 268-275 can hand to lines 277-292: a failure, no
\* record, or the record of the effective date.  ./analysis defines no
\* ensureDailyAnalysisExists in this tree, so the call can also throw.
AnalysisOutcomes(t1, t3) ==
    { [thrown |-> TRUE,  success |-> FALSE, analysis |-> <<>>],
      [thrown |-> FALSE, success |-> FALSE, analysis |-> <<>>],
      [thrown |-> FALSE, success |-> TRUE,  analysis |-> <<>>] }
    \cup { [thrown |-> FALSE, success |-> TRUE, analysis |-> <<DailyAnalysis(d, t1, t3)>>] :
              d \in DayKinds }

\* The accounts a call can meet.
Brokers ==
    { [credentials |-> c, cash |-> m, btc |-> b] :
          c \in BOOLEAN, m \in {0, 3000, 150000}, b \in {0, 50000} }

\* How Alpaca answers a POST to /v2/orders: accepted, refused (response
\* not ok), or the request fails.
Answers == {"ok", "refused", "failed"}

\* Arguments of executeStrategy as App.jsx lines 127-136 passes them.
StrategyArgs ==
    { [fn |-> "executeStrategy", baseDCA |-> 2000, f1 |-> 10, f3 |-> f,
       sellFactor |-> 2, dryRun |-> dry, t1 |-> th[1], t3 |-> th[2]] :
          f \in {0, 2}, dry \in BOOLEAN, th \in Thresholds }

\* The branch the chains of lines 10-17 and 331-397 take; 0 when none.
BranchOf(zone, recommendation) ==
    IF zone = 1 \/ recommendation = "accumulate" THEN 1
    ELSE IF zone = 2 \/ recommendation = "neutral" THEN 2
    ELSE IF zone = 3 \/ recommendation = "reduce" THEN 3
    ELSE 0

calculateDailyContribution(zone, recommendation, baseDCA, f1, f3) ==
    IF BranchOf(zone, recommendation) = 1 THEN baseDCA * f1
    ELSE IF BranchOf(zone, recommendation) = 2 THEN baseDCA
    ELSE IF BranchOf(zone, recommendation) = 3 THEN baseDCA * f3
    ELSE baseDCA

\* Zone 1 draining from the reserve and the daily contribution together.
calculateZone1BuyAmountWithContribution(baseDCA, f1, f3, reserveCash) ==
    LET freshInput  == baseDCA * f1
        drainTarget == (baseDCA * f3) + ((reserveCash + freshInput) \div 15)
        drainAmount == Min(reserveCash, drainTarget)
    IN  [freshInput |-> freshInput, drainAmount |-> drainAmount,
         totalBuyUSD |-> freshInput + drainAmount]

calculateZone1BuyAmount(baseDCA, f1, f3, reserveCash) ==
    LET freshInput  == baseDCA * f1
        drainTarget == (baseDCA * f3) + (reserveCash \div 15)
        drainAmount == Min(reserveCash, drainTarget)
    IN  [freshInput |-> freshInput, drainAmount |-> drainAmount,
         totalBuyUSD |-> freshInput + drainAmount]

calculateZone2BuyAmount(baseDCA) ==
    [freshInput |-> baseDCA, drainAmount |-> 0, totalBuyUSD |-> baseDCA]

calculateZone3BuyAmount(baseDCA, f3) ==
    [freshInput |-> baseDCA * f3, drainAmount |-> 0, totalBuyUSD |-> baseDCA * f3]

\* The results a call on Alpaca hands back.  thrown marks a call that
\* ended in an exception instead of a result; handleExecuteStrategy
\* (App.jsx lines 139-143) reports it as success: false with the message.
DryRunResult   == [success |-> TRUE, dryRun |-> TRUE, error |-> "", thrown |-> FALSE]
OrderResult(a) == [success |-> (a = "ok"), dryRun |-> FALSE, thrown |-> FALSE,
                   error |-> IF a = "ok" THEN "" ELSE IF a = "refused" THEN "Order failed" ELSE "Order error"]
Refusal(why)   == [success |-> FALSE, dryRun |-> FALSE, error |-> why, thrown |-> FALSE]
Rejection(why) == [success |-> FALSE, dryRun |-> FALSE, error |-> why, thrown |-> TRUE]

\* The result of lines 455-458; its message names the shortfall.
Insufficient(shortfall) ==
    [success |-> FALSE, dryRun |-> FALSE, error |-> "Insufficient cash", thrown |-> FALSE,
     shortfall |-> shortfall]

\* The requests sent to Alpaca, each with the answer it got.
OrderPost(side, amount, answer) ==
    [method |-> "POST", path |-> "/v2/orders", side |-> side, amount |-> amount,
     answer |-> answer]

Get(path, ok) ==
    [method |-> "GET", path |-> path, side |-> "", amount |-> 0,
     answer |-> IF ok THEN "ok" ELSE "refused"]

\* placeBuyOrder, lines 124-179.
placeBuyOrder(notional, dryRun, answer) ==
    IF dryRun THEN [result |-> DryRunResult, requests |-> <<>>]
    ELSE IF ~broker.credentials
    THEN [result |-> Refusal("API credentials not configured"), requests |-> <<>>]
    ELSE [result |-> OrderResult(answer), requests |-> <<OrderPost("buy", notional, answer)>>]

\* placeSellOrder without the branch of lines 185-191.
placeSellOrderLive(qty, dryRun, answer) ==
    IF ~broker.credentials
    THEN [result |-> Refusal("API credentials not configured"), requests |-> <<>>]
    ELSE [result |-> OrderResult(answer), requests |-> <<OrderPost("sell", qty, answer)>>]

\* placeSellOrder, lines 184-238.
placeSellOrder(qty, dryRun, answer) ==
    IF dryRun THEN [result |-> DryRunResult, requests |-> <<>>]
    ELSE IF ~broker.credentials
    THEN [result |-> Refusal("API credentials not configured"), requests |-> <<>>]
    ELSE [result |-> OrderResult(answer), requests |-> <<OrderPost("sell", qty, answer)>>]

\* executeBuyOrder without the test of line 435.
executeBuyOrderUnchecked(totalBuyUSD, freshInput, drainAmount, actualCashReserve, dryRun, answer) ==
    LET buy(r) == [type |-> "buy", amount |-> totalBuyUSD, freshInput |-> freshInput,
                   drainAmount |-> drainAmount, result |-> r]
    IN  IF dryRun
        THEN [action |-> buy(DryRunResult), requests |-> <<>>]
        ELSE LET o == placeBuyOrder(totalBuyUSD, FALSE, answer)
             IN  [action |-> buy(o.result), requests |-> o.requests]

\* executeBuyOrder, lines 409-463: the action it pushes and the requests
\* it makes.
executeBuyOrder(totalBuyUSD, freshInput, drainAmount, actualCashReserve, dryRun, answer) ==
    LET buy(r) == [type |-> "buy", amount |-> totalBuyUSD, freshInput |-> freshInput,
                   drainAmount |-> drainAmount, result |-> r]
    IN  IF dryRun
        THEN [action |-> buy(DryRunResult), requests |-> <<>>]
        ELSE IF actualCashReserve >= totalBuyUSD
        THEN LET o == placeBuyOrder(totalBuyUSD, FALSE, answer)
             IN  [action |-> buy(o.result), requests |-> o.requests]
        ELSE [action |-> buy(Insufficient(totalBuyUSD - actualCashReserve)),
              requests |-> <<>>]

\* The branch of lines 331-397 today's record selects.
Branch == BranchOf(today.zone, today.recommendation)

\* Lines 244-275: entry, up to the await of the daily analysis.
ExecuteStrategy ==
    /\ xpc = "idle"
    /\ \E args \in StrategyArgs : call' = args
    /\ xpc' = "analysis"
    /\ requests' = <<>>
    /\ UNCHANGED <<broker, today, account, results, ret, besideAlpaca>>

\* Lines 268-294; App.jsx lines 139-143 turn a throw into a failure.
EnsureDailyAnalysis ==
    /\ xpc = "analysis"
    /\ \E out \in AnalysisOutcomes(call.t1, call.t3) :
          IF out.thrown
          THEN /\ ret' = Rejection("ensureDailyAnalysisExists is not a function")
               /\ xpc' = "done"
               /\ today' = today
          ELSE IF ~out.success
          THEN /\ ret' = Refusal("Failed to get daily analysis")
               /\ xpc' = "done"
               /\ today' = today
          ELSE IF Len(out.analysis) = 0
          THEN /\ ret' = Refusal("No analysis data available for today")
               /\ xpc' = "done"
               /\ today' = today
          ELSE /\ today' = out.analysis[1]
               /\ xpc' = "account"
               /\ ret' = ret
    /\ UNCHANGED <<broker, call, account, results, requests, besideAlpaca>>

\* Lines 297-302, with testAlpacaConnection, lines 27-75.
TestAlpacaConnection ==
    /\ xpc = "account"
    /\ IF ~broker.credentials
       THEN /\ ret' = Refusal("API credentials not configured")
            /\ xpc' = "done"
            /\ UNCHANGED <<account, requests>>
       ELSE \E ok \in BOOLEAN :
               /\ requests' = Append(requests, Get("/v2/account", ok))
               /\ IF ok
                  THEN /\ account' = [actualCashReserve |-> broker.cash, totalBTC |-> 0]
                       /\ xpc' = "position"
                       /\ ret' = ret
                  ELSE /\ ret' = Refusal("Connection failed")
                       /\ xpc' = "done"
                       /\ account' = account
    /\ UNCHANGED <<broker, call, today, results, besideAlpaca>>

\* Lines 303-328, with getBTCPosition, lines 101-119, and getPositions,
\* lines 80-96: a failed request leaves btcResult.qty undefined.
GetBTCPosition ==
    /\ xpc = "position"
    /\ \E ok \in BOOLEAN :
          LET totalBTC == IF ok THEN broker.btc ELSE 0
          IN  /\ requests' = Append(requests, Get("/v2/positions", ok))
              /\ account' = [account EXCEPT !.totalBTC = totalBTC]
              /\ results' = [zone |-> today.zone,
                             recommendation |-> today.recommendation,
                             actualCashBefore |-> account.actualCashReserve,
                             dailyContribution |->
                                 calculateDailyContribution(today.zone, today.recommendation,
                                                            call.baseDCA, call.f1, call.f3),
                             btcBefore |-> totalBTC,
                             calculation |-> Null,
                             actions |-> <<>>]
    /\ xpc' = "buy"
    /\ UNCHANGED <<broker, call, today, ret, besideAlpaca>>

\* The buy of lines 331-384.
ExecuteBuy ==
    /\ xpc = "buy"
    /\ LET calc == IF Branch = 1
                   THEN calculateZone1BuyAmount(call.baseDCA, call.f1, call.f3,
                                                account.actualCashReserve)
                   ELSE IF Branch = 2 THEN calculateZone2BuyAmount(call.baseDCA)
                   ELSE calculateZone3BuyAmount(call.baseDCA, call.f3)
       IN  IF Branch \in {1, 2} \/ (Branch = 3 /\ calc.totalBuyUSD > 0)
           THEN \E answer \in Answers :
                  LET b == executeBuyOrder(calc.totalBuyUSD, calc.freshInput,
                                           IF Branch = 1 THEN calc.drainAmount ELSE 0,
                                           account.actualCashReserve, call.dryRun, answer)
                  IN  /\ results' = [results EXCEPT
                                        !.calculation = IF Branch = 3 THEN @ ELSE calc,
                                        !.actions = Append(@, b.action)]
                      /\ requests' = requests \o b.requests
           ELSE UNCHANGED <<results, requests>>
    /\ xpc' = "sell"
    /\ UNCHANGED <<broker, call, today, account, ret, besideAlpaca>>

\* The sell of lines 386-396.
ExecuteSell ==
    /\ xpc = "sell"
    /\ IF Branch = 3 /\ account.totalBTC > 0
       THEN \E answer \in Answers :
              LET sellQty == (account.totalBTC * call.sellFactor) \div 100
                  o       == placeSellOrder(sellQty, call.dryRun, answer)
              IN  /\ results' = [results EXCEPT
                                    !.actions = Append(@, [type |-> "sell", qty |-> sellQty,
                                                           result |-> o.result])]
                  /\ requests' = requests \o o.requests
       ELSE UNCHANGED <<results, requests>>
    /\ xpc' = "return"
    /\ UNCHANGED <<broker, call, today, account, ret, besideAlpaca>>

\* Lines 399-403.
ReturnResults ==
    /\ xpc = "return"
    /\ ret' = [success |-> TRUE, dryRun |-> call.dryRun, error |-> "", thrown |-> FALSE]
    /\ xpc' = "done"
    /\ UNCHANGED <<broker, call, today, account, results, requests, besideAlpaca>>

\* Orders a caller places on its own.
OrderSizes == {2000, 30000}

PlaceBuyOrderCall ==
    /\ xpc = "idle"
    /\ \E notional \in OrderSizes, dry \in BOOLEAN, answer \in Answers :
          LET o == placeBuyOrder(notional, dry, answer)
          IN  /\ call' = [fn |-> "placeBuyOrder", amount |-> notional, dryRun |-> dry]
              /\ ret' = o.result
              /\ requests' = o.requests
    /\ xpc' = "done"
    /\ UNCHANGED <<broker, today, account, results, besideAlpaca>>

PlaceSellOrderCall ==
    /\ xpc = "idle"
    /\ \E qty \in OrderSizes, dry \in BOOLEAN, answer \in Answers :
          LET o == placeSellOrder(qty, dry, answer)
          IN  /\ call' = [fn |-> "placeSellOrder", amount |-> qty, dryRun |-> dry]
              /\ ret' = o.result
              /\ requests' = o.requests
    /\ xpc' = "done"
    /\ UNCHANGED <<broker, today, account, results, besideAlpaca>>

\* The caller has taken the result; the next call starts afresh.
Dismiss ==
    /\ xpc = "done"
    /\ xpc' = "idle"
    /\ call' = Null
    /\ today' = Null
    /\ account' = Null
    /\ results' = Null
    /\ requests' = <<>>
    /\ ret' = Null
    /\ UNCHANGED <<broker, besideAlpaca>>

AlpacaInit ==
    /\ EngineIdle
    /\ MetricsIdle
    /\ broker \in Brokers
    /\ ExecutionIdle
    /\ PolicyIdle
    /\ DatabaseUnused
    /\ FetchIdle

AlpacaNext ==
    \/ ExecuteStrategy
    \/ EnsureDailyAnalysis
    \/ TestAlpacaConnection
    \/ GetBTCPosition
    \/ ExecuteBuy
    \/ ExecuteSell
    \/ ReturnResults
    \/ PlaceBuyOrderCall
    \/ PlaceSellOrderCall
    \/ Dismiss

AlpacaSpec == AlpacaInit /\ [][AlpacaNext]_vars

----------------------------------------------------------------------------
(* The copies of the policy, applied side by side to one input:            *)
(* strategies.js lines 65-101, analysis.js lines 26-39, strategyHelpers    *)
(* lines 27-59 and RecommendationCard.jsx lines 13-29.                     *)

Prices == {90, 100, 110}

Indices == {50, 60, 70, 77, 80}

\* Reserves in cents; a fifteenth of 100000 is not a whole number of
\* dollars.
Reserves == {0, 3000, 100000, 150000}

PolicyInputs ==
    { [price |-> p, ema20 |-> e20, ema50 |-> e50, cbbi |-> c, cash |-> r,
       t1 |-> th[1], t3 |-> th[2], baseDCA |-> 2000, f1 |-> 10, f3 |-> f,
       sellFactor |-> 2] :
          p \in Prices, e20 \in Prices, e50 \in Prices, c \in Indices,
          r \in Reserves, th \in Thresholds, f \in {0, 2} }

\* The simulator's branch for a zone, on reserve in.cash and no holding.
SimulatorBranch(zone, in) ==
    IF zone = 1 THEN Zone1Branch(in.cash, 0, in.price, in)
    ELSE IF zone = 3 THEN Zone3Branch(in.cash, 0, in.price, in)
    ELSE Zone2Branch(in.cash, 0, in.price, in)

\* The helper of strategyHelpers for a zone.
HelperAmounts(zone, in) ==
    IF zone = 1 THEN calculateZone1BuyAmount(in.baseDCA, in.f1, in.f3, in.cash)
    ELSE IF zone = 3 THEN calculateZone3BuyAmount(in.baseDCA, in.f3)
    ELSE calculateZone2BuyAmount(in.baseDCA)

ApplyPolicies(in) ==
    LET zone == Classify(in.price, in.ema20, in.ema50, in.cbbi, in.t1, in.t3)
    IN  [simulator |-> SimulatorBranch(zone, in),
         analysis  |-> DailyAnalysis(in, in.t1, in.t3),
         helper    |-> HelperAmounts(zone, in),
         card      |-> RecommendationCard(in, in)]

PolicyInit ==
    /\ EngineIdle
    /\ MetricsIdle
    /\ broker = Null
    /\ ExecutionIdle
    /\ policyCall \in PolicyInputs
    /\ policyResult = Null
    /\ DatabaseUnused
    /\ FetchIdle

ComparePolicies ==
    /\ policyResult = Null
    /\ policyResult' = ApplyPolicies(policyCall)
    /\ UNCHANGED <<policyCall, besidePolicy>>

PolicyNext == ComparePolicies

PolicySpec == PolicyInit /\ [][PolicyNext]_vars

----------------------------------------------------------------------------
(* The browser database (src/utils/database): initDatabase, saveDatabase   *)
(* and upsertMarketData.  A table is the set of its rows; a row of         *)
(* market_data is kept as its date and its price.                          *)

Real(v) == [k |-> "real", v |-> v]

Row(d, p) == [date |-> d, price |-> p]

\* The batches upsertMarketData is called with: none, one or two rows, a
\* date twice, a row without a price alone and after a good row.
Batches ==
    { <<>>,
      <<Row(1, Real(10))>>,
      <<Row(1, Real(20))>>,
      <<Row(2, Real(10))>>,
      <<Row(1, Real(10)), Row(2, Real(20))>>,
      <<Row(2, Real(20)), Row(2, Real(10))>>,
      <<Row(1, Real(20)), Row(2, Null)>>,
      <<Row(1, Null)>> }

\* price REAL NOT NULL, line 44: stmt.run throws on a row without a price.
Insertable(row) == row.price # Null

\* INSERT ... ON CONFLICT(date) DO UPDATE, lines 100-110.
UpsertRow(table, row) == { r \in table : r.date # row.date } \cup {row}

\* The loop of lines 116-125 on a table: the rows in order, up to the
\* first one that fails.
RECURSIVE RunBatch(_, _)
RunBatch(table, batch) ==
    IF batch = <<>> THEN [ok |-> TRUE, table |-> table]
    ELSE IF ~Insertable(Head(batch)) THEN [ok |-> FALSE, table |-> table]
    ELSE RunBatch(UpsertRow(table, Head(batch)), Tail(batch))

\* The transaction without the ROLLBACK of line 133.
upsertMarketDataNoRollback(table, batch) ==
    LET run == RunBatch(table, batch)
    IN  [outcome |-> IF run.ok THEN "committed" ELSE "thrown", table |-> run.table]

\* The transaction of lines 113-136: BEGIN, the loop, then COMMIT, or
\* ROLLBACK and rethrow.
upsertMarketData(table, batch) ==
    LET run == RunBatch(table, batch)
    IN  IF run.ok
        THEN [outcome |-> "committed", table |-> run.table]
        ELSE [outcome |-> "thrown", table |-> table]

\* saveDatabase, lines 79-92: the export is stored, or the failure is
\* caught and logged and the item stays as it was.
Saved(table) == [k |-> "saved", rows |-> table]

saveDatabase(item, table, stored) == IF stored THEN Saved(table) ELSE item

\* getMarketData, lines 176-204, over all dates.
getMarketData == IF db = 0 THEN {} ELSE databases[db]

\* initDatabase up to its await (lines 7-13), and the guard of the
\* exports (lines 395-397).
InitDatabase(c) ==
    /\ clients[c].at = "out"
    /\ clients' = [clients EXCEPT ![c] =
                      IF db # 0 THEN [at |-> "ready", handle |-> db]
                      ELSE [at |-> "loading", handle |-> 0]]
    /\ UNCHANGED <<db, databases, storage, upsert, committed, besideDatabase>>

\* initDatabase after its await (lines 13-35), with initSchema and its
\* save (lines 39-76).
LoadDatabase(c) ==
    /\ clients[c].at = "loading"
    /\ \E loaded \in BOOLEAN, stored \in BOOLEAN :
          IF ~loaded
          THEN /\ clients' = [clients EXCEPT ![c] = [at |-> "failed", handle |-> 0]]
               /\ UNCHANGED <<db, databases, storage>>
          ELSE LET table == IF storage # Null THEN storage.rows ELSE {}
               IN  /\ databases' = Append(databases, table)
                   /\ db' = Len(databases) + 1
                   /\ storage' = saveDatabase(storage, table, stored)
                   /\ clients' = [clients EXCEPT ![c] =
                                     [at |-> "ready", handle |-> Len(databases) + 1]]
    /\ UNCHANGED <<upsert, committed, besideDatabase>>

\* upsertMarketData, lines 94-137.
UpsertMarketData(c, batch) ==
    /\ clients[c].at \in {"out", "ready"}
    /\ IF db = 0
       THEN /\ upsert' = [batch |-> batch, outcome |-> "not initialized", saved |-> FALSE]
            /\ UNCHANGED <<databases, storage, committed>>
       ELSE LET r == upsertMarketData(databases[db], batch)
            IN  /\ databases' = [databases EXCEPT ![db] = r.table]
                /\ IF r.outcome = "committed"
                   THEN \E stored \in BOOLEAN :
                          /\ storage' = saveDatabase(storage, r.table, stored)
                          /\ upsert' = [batch |-> batch, outcome |-> r.outcome,
                                        saved |-> stored]
                          /\ committed' = RunBatch(committed, batch).table
                   ELSE /\ upsert' = [batch |-> batch, outcome |-> r.outcome,
                                      saved |-> FALSE]
                        /\ UNCHANGED <<storage, committed>>
    /\ UNCHANGED <<db, clients, besideDatabase>>

DatabaseInit ==
    /\ EngineIdle
    /\ MetricsIdle
    /\ broker = Null
    /\ ExecutionIdle
    /\ PolicyIdle
    /\ DatabaseUnused
    /\ FetchIdle

DatabaseNext ==
    \/ \E c \in Clients : InitDatabase(c)
    \/ \E c \in Clients : LoadDatabase(c)
    \/ \E c \in Clients, batch \in Batches : UpsertMarketData(c, batch)

DatabaseSpec == DatabaseInit /\ [][DatabaseNext]_vars

----------------------------------------------------------------------------
(* dataService.js: fetchFromAPI (lines 22-120)                             *)
(*                                                                         *)
(* Keys of the price object are timestamps; the model holds a key in       *)
(* thousands (key / 1000), so that a key in milliseconds fits an integer.  *)
(* A confidence is held in hundredths (0.55 is 55, 72 is 7200), a price    *)
(* and an average in whole units.                                          *)

DIRECT    == "https://colintalkscrypto.com/cbbi/data/latest.json"

\* PROXY + encodeURIComponent(URL), line 56.
PROXIED   == "https://corsproxy.io/?https%3A%2F%2Fcolintalkscrypto.com%2Fcbbi%2Fdata%2Flatest.json"

\* ALT_PROXY + encodeURIComponent(URL), line 73.
ALT_PROXIED == "https://api.allorigins.win/raw?url=https%3A%2F%2Fcolintalkscrypto.com%2Fcbbi%2Fdata%2Flatest.json"

\* A JSON object whose keys are timestamps: the value at each numeric key,
\* and the keys that are no number.
Obj(at, other) == [k |-> "object", at |-> at, other |-> other]

Html == [k |-> "html"]

Json(data) == [k |-> "json", data |-> data]

Data(price, btc, confidence, cbbi) ==
    [k |-> "data", Price |-> price, BTC |-> btc, Confidence |-> confidence, CBBI |-> cbbi]

\* Twenty days at 100 and a twenty-first at 121, keys in seconds.
LongKeys == { 1728000 + 87 * i : i \in 0..20 }

LongPrices == [ts \in LongKeys |-> IF ts = 1728000 + 87 * 20 THEN Real(121) ELSE Real(100)]

\* What a source can answer with status 200: a page that is no JSON, the
\* JSON null, an object without prices, prices under a key that is no
\* timestamp, two days keyed in seconds with confidences 0.55 and 72, three
\* days keyed in milliseconds under the names BTC and CBBI with a price of
\* 0, a price of null and a missing confidence, and twenty-one days.
Bodies ==
    { Html,
      Json(Null),
      Json(Data(Undefined, Undefined, Undefined, Undefined)),
      Json(Data(Obj([ts \in {1728000} |-> Real(100)], {"error"}), Undefined, Undefined, Undefined)),
      Json(Data(Obj([ts \in {1728000, 1728087} |-> IF ts = 1728000 THEN Real(100) ELSE Real(110)], {}),
                Undefined,
                Obj([ts \in {1728000, 1728087} |-> IF ts = 1728000 THEN Real(55) ELSE Real(7200)], {}),
                Undefined)),
      Json(Data(Undefined,
                Obj([ts \in {1728000000, 1728086400, 1728172800} |->
                        IF ts = 1728000000 THEN Real(0)
                        ELSE IF ts = 1728086400 THEN Null ELSE Real(90)], {}),
                Undefined,
                Obj([ts \in {1728000000, 1728086400} |-> IF ts = 1728000000 THEN Real(0) ELSE Null], {}))),
      Json(Data(Obj(LongPrices, {}), Undefined, Undefined, Undefined)) }

Rejected == [k |-> "rejected"]

Response(ok, status, body) == [k |-> "response", ok |-> ok, status |-> status, body |-> body]

\* What fetch can give: a rejection (network error, CORS), a response whose
\* status is outside 200-299, a response that is ok.
FetchAnswers ==
    {Rejected} \cup { Response(FALSE, st, Html) : st \in {403, 500} }
               \cup { Response(TRUE, 200, body) : body \in Bodies }

FailedOnNetworkErrorOnly(answer) == answer.k = "rejected"

\* Lines 44-46, 61-63, 75-77: the await rejected, or the response is not ok
\* and the code throws; either way the catch that follows runs.
Failed(answer) == answer.k = "rejected" \/ ~answer.ok

Request(url, answer) == [url |-> url, answer |-> answer]

Threw == [k |-> "threw"]

Truthy(x) == x.k \in {"object", "data"} \/ (x.k = "real" /\ x.v # 0)

\* a || b
OrElse(a, b) == IF Truthy(a) THEN a ELSE b

NoKeys == Obj(<<>>, {})

RECURSIVE SortedKeys(_)
\* Object.keys(prices).sort((a, b) => a - b), line 94.
SortedKeys(S) ==
    IF S = {} THEN <<>>
    ELSE LET m == CHOOSE x \in S : \A y \in S : x <= y
         IN <<m>> \o SortedKeys(S \ {m})

\* Lines 95-97: parseInt, seconds made milliseconds, the day of the date.
DateOf(ts) ==
    LET t == IF ts < 10000000 THEN ts * 1000 ELSE ts
    IN t \div 86400

\* Lines 98-100: a confidence of at most 1 is a fraction and is made a
\* percentage, and a missing, null or zero one is 50.
CbbiOf(confidence, ts) ==
    LET c == IF ts \in DOMAIN confidence.at THEN confidence.at[ts] ELSE Undefined
        scaled == IF c.k = "real" /\ c.v <= 100 THEN c.v
                  ELSE IF c.k = "real" THEN c.v \div 100
                  ELSE 0
    IN IF scaled = 0 THEN 50 ELSE scaled

\* The number a value counts as in a sum: null is 0, undefined gives NaN.
RECURSIVE SumFirst(_, _)
SumFirst(arr, n) ==
    IF n = 0 THEN Real(0)
    ELSE IF n > Len(arr) THEN NaN
    ELSE LET rest == SumFirst(arr, n - 1)
             x == arr[n]
         IN IF rest.k = "NaN" THEN NaN
            ELSE IF x.k = "real" THEN Real(rest.v + x.v)
            ELSE rest

RECURSIVE EmaAt(_, _, _)
\* Lines 14-17: the average of the first n values, then the recurrence with
\* k = 2 / (n + 1), to the unit.
EmaAt(arr, n, i) ==
    IF i = n THEN LET sum == SumFirst(arr, n)
                  IN IF sum.k = "NaN" THEN NaN ELSE Real(sum.v \div n)
    ELSE LET prev == EmaAt(arr, n, i - 1)
             x == IF arr[i].k = "real" THEN arr[i].v ELSE 0
         IN IF prev.k = "NaN" THEN NaN
            ELSE Real((2 * x + (n - 1) * prev.v) \div (n + 1))

\* calcEMA, lines 9-19, at the indices of arr: null before index n.
calcEMA(arr, n) ==
    [i \in 1..Len(arr) |-> IF i < n THEN Null ELSE EmaAt(arr, n, i)]

Rows(value) == [k |-> "rows", value |-> value]

\* Lines 90-114, the body of the try once the JSON is read.
RowsOf(data) ==
    IF data = Null THEN Threw
    ELSE LET prices == OrElse(data.Price, OrElse(data.BTC, NoKeys))
             confidence == OrElse(data.Confidence, OrElse(data.CBBI, NoKeys))
             keys == SortedKeys(DOMAIN prices.at)
             rawData == [i \in 1..Len(keys) |->
                            [date  |-> DateOf(keys[i]),
                             price |-> prices.at[keys[i]],
                             cbbi  |-> CbbiOf(confidence, keys[i])]]
             pArr == [i \in 1..Len(keys) |-> rawData[i].price]
             e20 == calcEMA(pArr, 20)
             e50 == calcEMA(pArr, 50)
             e100 == calcEMA(pArr, 100)
             full == [i \in 1..Len(keys) |->
                         [date   |-> rawData[i].date,
                          price  |-> rawData[i].price,
                          cbbi   |-> rawData[i].cbbi,
                          ema20  |-> OrElse(e20[i], rawData[i].price),
                          ema50  |-> OrElse(e50[i], rawData[i].price),
                          ema100 |-> OrElse(e100[i], rawData[i].price)]]
         IN IF prices.other # {} THEN Threw
            ELSE Rows(SelectSeq(full, LAMBDA d : d.price.k = "real" /\ d.price.v > 0))

\* Lines 88-114: rawResponse.json() and the rows made of it.
Parse(body) == IF body.k = "html" THEN Threw ELSE RowsOf(body.data)

ReturnedList(value) == [k |-> "returned", value |-> value]

\* fetchRealData calls fetchFromAPI (line 22).
FetchFromAPI ==
    /\ fpc = "idle"
    /\ fpc' = "direct"
    /\ UNCHANGED <<rawResponse, fetchLog, fetchRet, besideFetch>>

\* Strategy 1, lines 35-50.
FetchDirect ==
    /\ fpc = "direct"
    /\ \E answer \in FetchAnswers :
        /\ fetchLog' = Append(fetchLog, Request(DIRECT, answer))
        /\ rawResponse' = IF answer.k = "rejected" THEN rawResponse ELSE answer
        /\ fpc' = IF Failed(answer) THEN "proxy" ELSE "parse"
    /\ UNCHANGED <<fetchRet, besideFetch>>

\* Strategy 2, lines 52-67.
FetchProxy ==
    /\ fpc = "proxy"
    /\ \E answer \in FetchAnswers :
        /\ fetchLog' = Append(fetchLog, Request(PROXIED, answer))
        /\ rawResponse' = IF answer.k = "rejected" THEN rawResponse ELSE answer
        /\ fpc' = IF Failed(answer) THEN "alt" ELSE "parse"
    /\ UNCHANGED <<fetchRet, besideFetch>>

\* Strategy 3, lines 69-83: when it fails too the call returns [].
FetchAltProxy ==
    /\ fpc = "alt"
    /\ \E answer \in FetchAnswers :
        /\ fetchLog' = Append(fetchLog, Request(ALT_PROXIED, answer))
        /\ rawResponse' = IF answer.k = "rejected" THEN rawResponse ELSE answer
        /\ IF Failed(answer)
           THEN fpc' = "done" /\ fetchRet' = ReturnedList(<<>>)
           ELSE fpc' = "parse" /\ fetchRet' = fetchRet
    /\ UNCHANGED besideFetch

\* Lines 87-119: the rows, or [] when anything in the try threw.
ParseResponse ==
    /\ fpc = "parse"
    /\ LET rows == Parse(rawResponse.body)
       IN fetchRet' = IF rows = Threw THEN ReturnedList(<<>>) ELSE ReturnedList(rows.value)
    /\ fpc' = "done"
    /\ UNCHANGED <<rawResponse, fetchLog, besideFetch>>

FetchInit ==
    /\ EngineIdle
    /\ MetricsIdle
    /\ broker = Null
    /\ ExecutionIdle
    /\ PolicyIdle
    /\ DatabaseUnused
    /\ FetchIdle

FetchNext ==
    \/ FetchFromAPI
    \/ FetchDirect
    \/ FetchProxy
    \/ FetchAltProxy
    \/ ParseResponse

FetchSpec == FetchInit /\ [][FetchNext]_vars

----------------------------------------------------------------------------
(* Vocabulary of the properties *)

\* The engine is inside a call on a non-empty series.
Running == pc \in {"vdca", "dca", "metrics", "return"}

\* The call on a non-empty series has returned and the caller has not yet
\* taken the result.
Returned == pc = "done" /\ result # Null

\* The state right after the V_DCA callback of a simulated day (idx >= 1).
AfterVdcaDay == pc = "vdca" /\ idx >= 2

\* The step that simulates one V_DCA day.
VdcaDayStep == pc = "vdca" /\ idx >= 1 /\ idx < Len(subset) /\ idx' = idx + 1

\* The reserve after the day's interest, from the reserve recorded the day before.
ReserveAfterInterest(prevCash) == prevCash + TimesDailyInterest(prevCash)

RECURSIVE CountOf(_, _)
CountOf(q, z) ==
    IF q = <<>> THEN 0
    ELSE (IF q[1] = z THEN 1 ELSE 0) + CountOf(Tail(q), z)

----------------------------------------------------------------------------
(* C1 *)

\* C1: every simulated day gets exactly one zone, in strict priority order:
\* Accumulation (1) iff price < ema50 and sentiment < t1; otherwise Reduction
\* (3) iff price > ema20 and sentiment > t3; otherwise Neutral (2).  When
\* both conditions hold the day is Accumulation, whatever the order of t1, t3.
C1_ZonePriority ==
    (Running \/ Returned) =>
        \A i \in 1..Len(zones) :
            LET d   == subset[i + 1]
                c   == cbbis[i]
                acc == d.price < d.ema50 /\ c < params.t1
                red == d.price > d.ema20 /\ c > params.t3
            IN  /\ zones[i] \in {1, 2, 3}
                /\ (zones[i] = 1) <=> acc
                /\ (zones[i] = 3) <=> (~acc /\ red)
                /\ (zones[i] = 2) <=> (~acc /\ ~red)
                /\ (acc /\ red) => zones[i] = 1

\* A day on which both conditions hold has been classified (as Accumulation).
C1_Witness ==
    /\ AfterVdcaDay
    /\ LET d == subset[idx] IN
         /\ d.price < d.ema50 /\ day.cbbi < params.t1
         /\ d.price > d.ema20 /\ day.cbbi > params.t3
    /\ day.zone = 1

----------------------------------------------------------------------------
(* C2 *)

\* C2: on every Accumulation day, with the reserve taken after the day's
\* interest: fresh injection = baseDCA*f1; drain target = baseDCA*f3 +
\* reserve/15; drained = min(reserve, drain target); the reserve decreases by
\* exactly the drained amount; total buy = fresh injection + drained.  With
\* a reserve of 0 the drained amount is 0 and the total buy is the fresh
\* injection.  Scenario of the spec: baseDCA = 20, f1 = 10, f3 = 0, reserve
\* 1500 gives fresh 200, drained 100, total buy 300, reserve 1400.
C2_AccumulationDay ==
    /\ (AfterVdcaDay /\ day.zone = 1) =>
          LET h           == s_vdca.cashHistory
              reserve     == ReserveAfterInterest(h[Len(h) - 1])
              drainTarget == (params.baseDCA * params.f3) + (reserve \div 15)
              drained     == IF reserve <= drainTarget THEN reserve ELSE drainTarget
          IN  /\ day.freshInput = params.baseDCA * params.f1
              /\ day.reserveInput = drained
              /\ s_vdca.cash = reserve - drained
              /\ h[Len(h)] = reserve - drained
              /\ day.actualBuyUSD = day.freshInput + drained
              /\ (reserve = 0) => (day.reserveInput = 0 /\ day.actualBuyUSD = day.freshInput)
    /\ LET b == Zone1Branch(150000, 0, 90, [baseDCA |-> 2000, f1 |-> 10, f3 |-> 0, sellFactor |-> 2])
       IN  /\ b.freshInput = 20000
           /\ b.reserveInput = 10000
           /\ b.actualBuyUSD = 30000
           /\ b.cash = 140000

\* An Accumulation day whose drain was capped by the reserve: the whole
\* (non-zero) reserve was drained although the drain target was larger.
C2_Witness ==
    /\ AfterVdcaDay
    /\ day.zone = 1
    /\ day.reserveInput > 0
    /\ s_vdca.cash = 0
    /\ day.reserveInput < (params.baseDCA * params.f3) + (day.reserveInput \div 15)

----------------------------------------------------------------------------
(* C3 *)

\* The effect of a Reduction day on the reserve, with a given banked amount.
ReductionDayEffect(banked) ==
    LET reserve == ReserveAfterInterest(s_vdca.cash)
        sold    == (s_vdca.btc * params.sellFactor) \div 100
        price   == subset[idx + 1].price
    IN  /\ day'.freshInput = params.baseDCA * params.f3
        /\ day'.sellBTC = sold
        /\ s_vdca'.cash = reserve + (sold * price) + banked
        /\ day'.actualBuyUSD = day'.freshInput
        /\ day'.reserveInput = 0
        /\ s_vdca'.btc = (s_vdca.btc - sold) + (day'.freshInput \div price)

\* The spec's Reduction scenario: price 120000, baseDCA 20, f3 0, sellFactor
\* 2, 0.5 BTC held: sold 0.01 BTC, proceeds 1200, banked 20.
ReductionScenario ==
    LET b == Zone3Branch(0, 50000, 120, [baseDCA |-> 2000, f1 |-> 10, f3 |-> 0, sellFactor |-> 2])
    IN  /\ b.freshInput = 0
        /\ b.sellBTC = 1000
        /\ b.sellBTC * 120 = 120000
        /\ b.unspent = 2000
        /\ b.cash = 120000 + 2000

\* C3 as stated: on every Reduction day, for all parameter values, the
\* reserve increases by soldUnits*price plus (baseDCA - freshInjection).
C3_Original_BanksDifference ==
    [][(VdcaDayStep /\ day'.zone = 3) =>
          ReductionDayEffect(params.baseDCA - (params.baseDCA * params.f3))]_vars

\* C3 (amended): on every Reduction day: fresh injection = baseDCA*f3; sold
\* units = sellFactor percent of the holdings before the day's buy; the
\* reserve increases by soldUnits*price plus the unspent portion
\* baseDCA - freshInjection when that is positive, and by soldUnits*price
\* alone when it is not (f3 > 1); total buy = fresh injection, no drain.
C3_ReductionDay ==
    [][(VdcaDayStep /\ day'.zone = 3) =>
          /\ ReductionDayEffect(Max(0, params.baseDCA - (params.baseDCA * params.f3)))
          /\ ReductionScenario]_vars

\* A Reduction day that sold units and whose fresh injection exceeded
\* baseDCA, so that nothing was banked.
C3_Witness ==
    /\ AfterVdcaDay
    /\ day.zone = 3
    /\ day.sellBTC > 0
    /\ day.freshInput > params.baseDCA

----------------------------------------------------------------------------
(* C4 *)

\* C4: on every Neutral day the fresh injection is exactly baseDCA and the
\* total buy equals it; nothing is drained and nothing is sold, so the
\* reserve changes by the day's interest only and the holdings grow by
\* exactly baseDCA/price.
C4_NeutralDay ==
    [][(VdcaDayStep /\ day'.zone = 2) =>
          /\ day'.freshInput = params.baseDCA
          /\ day'.actualBuyUSD = day'.freshInput
          /\ day'.reserveInput = 0
          /\ day'.sellBTC = 0
          /\ s_vdca'.cash = s_vdca.cash + TimesDailyInterest(s_vdca.cash)
          /\ s_vdca'.btc = s_vdca.btc + (params.baseDCA \div subset[idx + 1].price)]_vars

\* A Neutral day with a non-empty reserve and holdings from an earlier day.
C4_Witness ==
    /\ AfterVdcaDay
    /\ day.zone = 2
    /\ s_vdca.cash > 0
    /\ day.prevVal > s_vdca.cashHistory[Len(s_vdca.cashHistory) - 1]

----------------------------------------------------------------------------
(* C5 *)

\* C5: every day after the seed day gets exactly one zone label: after the
\* callback of day i the zone sequence has i entries, at the end n-1; the
\* counts z1 + z2 + z3 equal that length and each count equals the number of
\* entries with its label.
C5_ZoneCounts ==
    /\ pc = "vdca" => Len(zones) = Max(idx, 1) - 1
    /\ (pc \in {"dca", "metrics", "return"} \/ Returned) => Len(zones) = Len(subset) - 1
    /\ (Running \/ Returned) =>
          /\ stats.z1 + stats.z2 + stats.z3 = Len(zones)
          /\ stats.z1 = CountOf(zones, 1)
          /\ stats.z2 = CountOf(zones, 2)
          /\ stats.z3 = CountOf(zones, 3)
    /\ Returned =>
          /\ Len(result.zones) = Len(subset) - 1
          /\ result.zoneStats.z1 + result.zoneStats.z2 + result.zoneStats.z3 = Len(subset) - 1
          /\ result.zoneStats.z1 = CountOf(result.zones, 1)
          /\ result.zoneStats.z2 = CountOf(result.zones, 2)
          /\ result.zoneStats.z3 = CountOf(result.zones, 3)

\* A returned run of full length with an Accumulation and a Reduction day.
C5_Witness ==
    /\ Returned
    /\ Len(subset) = MaxDays
    /\ result.zoneStats.z1 > 0
    /\ result.zoneStats.z3 > 0

----------------------------------------------------------------------------
(* C6 *)

HistoryLengths(s, k) ==
    /\ Len(s.val) = k
    /\ Len(s.investedHistory) = k
    /\ Len(s.cashHistory) = k
    /\ Len(s.returns) = k - 1

\* C6: in the V_DCA state and in the Baseline state the value, invested and
\* cash histories have i+1 entries and the return history i entries after
\* day i has been processed, hence n and n-1 at the end of a run over n days.
C6_HistoryLengths ==
    /\ pc = "vdca" => /\ HistoryLengths(s_vdca, Max(idx, 1))
                      /\ HistoryLengths(s_dca, 1)
    /\ pc = "dca" => /\ HistoryLengths(s_vdca, Len(subset))
                     /\ HistoryLengths(s_dca, Max(idx, 1))
    /\ pc \in {"metrics", "return"} =>
          /\ HistoryLengths(s_vdca, Len(subset))
          /\ HistoryLengths(s_dca, Len(subset))
    /\ Returned =>
          /\ HistoryLengths(result.strategies[3], Len(subset))
          /\ HistoryLengths(result.strategies[2], Len(subset))

\* A returned run of full length.
C6_Witness ==
    /\ Returned
    /\ Len(subset) = MaxDays
    /\ Len(result.strategies[2].cashHistory) = MaxDays
    /\ Len(result.strategies[3].returns) = MaxDays - 1

----------------------------------------------------------------------------
(* C7 *)

\* The fresh injection the policy prescribes for a zone.
FreshOfZone(z) ==
    IF z = 1 THEN params.baseDCA * params.f1
    ELSE IF z = 2 THEN params.baseDCA
    ELSE params.baseDCA * params.f3

RECURSIVE FreshSum(_)
FreshSum(zs) == IF zs = <<>> THEN 0 ELSE FreshOfZone(zs[1]) + FreshSum(Tail(zs))

\* C7: at every day i of the V_DCA walk contributedCapital and the i-th
\* invested-history entry equal the sum of the fresh injections of days
\* 1..i (baseDCA*f1, baseDCA, baseDCA*f3 by zone); drained reserve, sale
\* proceeds, interest and the initial capital are never added.
C7_ContributedCapital ==
    (Running \/ Returned) =>
        /\ s_vdca.usd = FreshSum(zones)
        /\ \A i \in 1..Len(s_vdca.investedHistory) :
               s_vdca.investedHistory[i] = FreshSum(SubSeq(zones, 1, i - 1))

\* After a day that bought with drained reserve on top of the fresh
\* injection, in a run with initial capital and accrued interest.
C7_Witness ==
    /\ AfterVdcaDay
    /\ day.reserveInput > 0
    /\ day.actualBuyUSD > day.freshInput
    /\ s_vdca.interest > 0
    /\ params.initialCapital > 0
    /\ s_vdca.usd > 0

----------------------------------------------------------------------------
(* C8 *)

\* C8: the Baseline's per-day contribution is computed only after the V_DCA
\* walk has finished, as V_DCA's final contributedCapital divided by n-1
\* (by 1 when n = 1, where both totals are 0); and the Baseline's total
\* contribution equals V_DCA's final contributedCapital, up to the rounding
\* of that division (less than one cent per simulated day).
C8_CapitalMatched ==
    /\ pc = "vdca" => (scaledDailyDCA = 0 /\ s_dca.usd = 0)
    /\ pc \in {"dca", "metrics", "return"} =>
          /\ Len(s_vdca.val) = Len(subset)
          /\ totalFreshUSD = s_vdca.usd
          /\ Len(subset) > 1 => /\ scaledDailyDCA * (Len(subset) - 1) <= totalFreshUSD
                                /\ totalFreshUSD < (scaledDailyDCA + 1) * (Len(subset) - 1)
          /\ Len(subset) = 1 => (totalFreshUSD = 0 /\ scaledDailyDCA = 0)
    /\ (pc \in {"metrics", "return"} \/ Returned) =>
          LET inv      == s_dca.investedHistory
              baseline == inv[Len(inv)]
              n        == Len(subset)
          IN  /\ baseline = s_dca.usd
              /\ baseline <= s_vdca.usd
              /\ s_vdca.usd - baseline < Max(n - 1, 1)
              /\ (n = 1) => (baseline = 0 /\ s_vdca.usd = 0)

\* A finished Baseline walk over a full-length series with contributions.
C8_Witness ==
    /\ pc = "metrics"
    /\ Len(subset) = MaxDays
    /\ s_vdca.usd > 0
    /\ s_dca.usd > 0

----------------------------------------------------------------------------
(* C9 *)

\* What the portfolio held before the day is worth at the day's price, the
\* reserve with its interest: assetHeld_before*price + cashReserve_before*(1 + r).
CarriedValue == (s_vdca.btc * subset[idx + 1].price) + ReserveAfterInterest(s_vdca.cash)

\* newValue - freshInjection equals the carried value, up to the flooring of
\* the bought units (less than one unit's worth, i.e. less than price cents).
OnlyFreshEnters ==
    LET net == day'.newVal - day'.freshInput
    IN  /\ net <= CarriedValue
        /\ CarriedValue - net < subset[idx + 1].price

\* C9: on every simulated day and in every zone the fresh injection is the
\* only outside capital entering the portfolio: newValue - freshInjection =
\* assetHeld_before*price + cashReserve_before*(1 + 0.045/365), and the
\* recorded daily return is (newValue - freshInjection)/previousValue - 1.
C9_OnlyFreshInjectionEnters ==
    [][VdcaDayStep =>
          /\ OnlyFreshEnters
          /\ day'.prevVal = s_vdca.val[Len(s_vdca.val)]
          /\ s_vdca'.returns[Len(s_vdca'.returns)] =
                 MinusOne(Quot(day'.newVal - day'.freshInput, day'.prevVal))]_vars

\* The same holds on the days that are not Reduction days with an unspent
\* portion: there the code's arithmetic agrees with C9.
C9_HoldsWithoutBanking ==
    [][(VdcaDayStep /\ ~(day'.zone = 3 /\ day'.unspent > 0)) => OnlyFreshEnters]_vars

\* On a Reduction day with an unspent portion the difference is exactly the
\* banked amount baseDCA - freshInjection.
C9_BankedAmountEnters ==
    [][(VdcaDayStep /\ day'.zone = 3 /\ day'.unspent > 0) =>
          LET net == (day'.newVal - day'.freshInput) - day'.unspent
          IN  /\ day'.unspent = params.baseDCA - day'.freshInput
              /\ net <= CarriedValue
              /\ CarriedValue - net < subset[idx + 1].price]_vars

----------------------------------------------------------------------------
(* C10 *)

\* C10: runStrategies keeps no state between runs: a call with the same
\* series and parameters as an earlier call, with any other calls in
\* between, returns the same value, invested, cash and return histories,
\* zone sequence, zone counts and recommendation snapshot.
C10_SameInputSameResult ==
    (pc = "done" /\ seen # Null /\ seen.subset = subset /\ seen.params = params) =>
        /\ result = seen.result
        /\ result.zones = seen.result.zones
        /\ result.zoneStats = seen.result.zoneStats
        /\ result.recData = seen.result.recData
        /\ result.strategies = seen.result.strategies

\* A call with a probe input has returned a second time.
C10_Witness ==
    /\ pc = "done"
    /\ seen # Null
    /\ seen.subset = subset
    /\ seen.params = params
    /\ result # Null
    /\ result.zoneStats.z1 > 0

----------------------------------------------------------------------------
(* C11 *)

\* C11: a call with an empty series returns null and runs neither a
\* simulator nor the metrics (no strategy state, zone or sentiment sequence
\* is created and the engine is never inside a walk on an empty series); a
\* call with a non-empty series, a single day included, returns a non-null
\* result that carries the three strategies.
C11_EmptySeriesNull ==
    /\ Running => Len(subset) >= 1
    /\ pc = "done" => (result = Null <=> Len(subset) = 0)
    /\ (pc = "done" /\ Len(subset) = 0) =>
          /\ s_vdca = Null /\ s_dca = Null /\ s_hodl = Null
          /\ zones = <<>> /\ cbbis = <<>>
          /\ day = NoDay
    /\ (pc = "done" /\ Len(subset) >= 1) =>
          /\ result.k = "result"
          /\ Len(result.strategies) = 3
          /\ \A i \in 1..3 : result.strategies[i].metrics # Null

\* A call with an empty series has returned.
C11_Witness == pc = "done" /\ Len(subset) = 0 /\ result = Null

----------------------------------------------------------------------------
(* C12 *)

\* Return sequences on which line 25 returns: missing, empty, one entry.
ShortReturns == { Undefined, Array(<<>>), Array(<<Fin(12)>>), Array(<<Fin(-7)>>), Array(<<NaN>>) }

\* C12: with a missing return sequence or fewer than 2 returns calcMetrics
\* yields sharpe 0.00, sortino 0.00 and annualized return 0.0 without reading
\* the invested or value sequences (they may be missing); consequently all
\* three strategies of a run over 1 or 2 days carry the zero-valued metrics.
C12_ShortReturnsZeroMetrics ==
    /\ \A r \in ShortReturns :
          /\ calcMetrics(r, Undefined, Undefined) = ZeroMetrics
          /\ calcMetrics(r, Array(<<0, 2000>>), Array(<<3000, 5100>>)) = ZeroMetrics
    /\ ((pc = "return" \/ Returned) /\ Len(subset) <= 2) =>
          \A s \in {s_hodl, s_dca, s_vdca} :
              /\ Len(s.returns) = Len(subset) - 1
              /\ s.metrics = ZeroMetrics
              /\ s.metrics.sharpe = Fin(0) /\ s.metrics.sortino = Fin(0) /\ s.metrics.yoy = Fin(0)
    /\ (Returned /\ Len(subset) <= 2) =>
          \A i \in 1..3 : result.strategies[i].metrics = ZeroMetrics

\* A returned run over two days whose V_DCA state gained value on a
\* contribution: one non-zero return, and still the zero-valued metrics.
C12_Witness ==
    /\ Returned
    /\ Len(subset) = 2
    /\ result.strategies[3].returns[1].k = "fin"
    /\ result.strategies[3].returns[1].v # 0
    /\ result.strategies[3].usd > 0
    /\ result.strategies[3].metrics = ZeroMetrics

----------------------------------------------------------------------------
(* C13 *)

FiniteSeq(q) == \A i \in 1..Len(q) : q[i].k = "fin"

\* Neither NaN nor an infinity in a metrics record.
FiniteMetricsOf(m) ==
    /\ m.sharpe.k \in {"fin", "huge"}
    /\ m.sortino.k = "fin"
    /\ m.yoy.k \in {"fin", "pow"}

\* No NaN or infinity in the return history or the metrics of a strategy state.
FiniteStrategy(s) ==
    /\ FiniteSeq(s.returns)
    /\ (s.metrics # Null => FiniteMetricsOf(s.metrics))

\* C13: in every run over a non-empty series with positive prices and
\* initialCapital >= 0 (0 included) no division by zero reaches the output:
\* the return histories and the metrics of the three strategies hold neither
\* NaN nor an infinity.
C13_NoDivisionByZero ==
    /\ Running => (FiniteStrategy(s_vdca) /\ FiniteStrategy(s_dca))
    /\ pc \in {"metrics", "return"} => FiniteStrategy(s_hodl)
    /\ Returned => \A i \in 1..3 : FiniteStrategy(result.strategies[i])

\* With initialCapital > 0 every previous value is positive and the claim's
\* property holds: the denominators of calcMetrics (annualized deviations,
\* years, average capital) are guarded; the previous values are not.
C13_FiniteWithCapital ==
    ((Running \/ Returned) /\ params.initialCapital > 0) =>
        /\ \A i \in 1..Len(s_vdca.val) : s_vdca.val[i] > 0
        /\ \A i \in 1..Len(s_dca.val) : s_dca.val[i] > 0
        /\ C13_NoDivisionByZero

\* With initialCapital = 0 the first simulated day divides by the seed value 0.
C13_ZeroCapitalDividesByZero ==
    (pc = "vdca" /\ idx >= 2 /\ params.initialCapital = 0) =>
        /\ s_vdca.val[1] = 0
        /\ s_vdca.returns[1].k # "fin"

----------------------------------------------------------------------------
(* C14 *)

\* calcMetrics has returned for a call with at least two returns.
MetricsComputed ==
    /\ metricsResult # Null
    /\ metricsCall.returns # Undefined
    /\ Len(metricsCall.returns.v) >= 2

\* The returns of the call, in thousandths.
CallReturns == [i \in 1..Len(metricsCall.returns.v) |-> metricsCall.returns.v[i].v]

\* mean * 365 - 0.045 in hundredths: the quotient with the denominator 1.
ExcessOverOne ==
    Fin(((((SumSeq(CallReturns) * 365) \div Len(CallReturns)) - 45) * 100) \div 1000)

\* No return of the call is strictly negative: Sortino is mean*365 - 0.045.
SortinoClamped ==
    (\A i \in 1..Len(CallReturns) : CallReturns[i] >= 0) =>
        metricsResult.sortino = ExcessOverOne

\* The mean of the invested sequence is not > 0: the annualized return is 0.
NoCapitalNoReturn ==
    (SumSeq(metricsCall.investedHistory.v) <= 0) => metricsResult.yoy = Fin(0)

\* C14: for a constant return series of length >= 2 the annualized standard
\* deviation is replaced by 1 and Sharpe = mean*365 - 0.045; whenever no
\* return is strictly negative the downside deviation is replaced by 1 and
\* Sortino = mean*365 - 0.045; the annualized return is 0 whenever the mean
\* of the invested-capital sequence is not > 0.
C14_ClampedDenominators ==
    MetricsComputed =>
        /\ IsConstant(CallReturns) => metricsResult.sharpe = ExcessOverOne
        /\ SortinoClamped
        /\ NoCapitalNoReturn

\* The same with the Sharpe part only for the constant series whose mean is
\* rounded to the return itself, so that the computed variance is 0.
C14_HoldsWhenVarianceIsZero ==
    MetricsComputed =>
        /\ (IsConstant(CallReturns) /\ MeanOfEqualsIsExact(CallReturns[1], Len(CallReturns)))
               => metricsResult.sharpe = ExcessOverOne
        /\ SortinoClamped
        /\ NoCapitalNoReturn

\* For the other constant series the deviation is a rounding error, not 0,
\* and Sharpe is the quotient by it.
C14_RoundingDefeatsClamp ==
    (MetricsComputed /\ IsConstant(CallReturns)
        /\ ~MeanOfEqualsIsExact(CallReturns[1], Len(CallReturns)))
      => metricsResult.sharpe = Huge(1)

----------------------------------------------------------------------------
(* C15 *)

\* The lump-sum benchmark b of the run in progress is as C15 says.
LumpSum(b) ==
    LET n     == Len(subset)
        whole == (params.initialCapital + s_vdca.usd) \div subset[1].price
    IN  /\ b.btc <= whole /\ whole - b.btc <= 1
        /\ Len(b.val) = n
        /\ \A i \in 1..n : b.val[i] = b.btc * subset[i].price
        /\ Len(b.investedHistory) = n
        /\ \A i \in 1..n : b.investedHistory[i] = s_vdca.usd
        /\ Len(b.returns) = n - 1
        /\ \A i \in 1..(n - 1) :
               b.returns[i] = Quot(b.val[i + 1] - b.val[i], b.val[i])

\* C15: the lump-sum benchmark holds a constant number of units,
\* (initialCapital + V_DCA's final contributedCapital) / price[0] (the code
\* adds the two quotients: up to one unit of rounding); its value on every
\* day i, day 0 included, is units * price[i]; its invested history has n
\* entries, all V_DCA's final contributedCapital; its return history has
\* n-1 entries, entry i being (value[i] - value[i-1]) / value[i-1].
C15_LumpSumBenchmark ==
    /\ pc \in {"metrics", "return"} => LumpSum(s_hodl)
    /\ Returned => (LumpSum(result.strategies[1]) /\ result.strategies[1].usd = result.strategies[3].usd)

\* A returned run of full length with initial capital, contributions and a
\* benchmark value that moved.
C15_Witness ==
    /\ Returned
    /\ Len(subset) = MaxDays
    /\ params.initialCapital > 0
    /\ result.strategies[3].usd > 0
    /\ result.strategies[1].btc > params.initialCapital \div subset[1].price
    /\ result.strategies[1].val[2] # result.strategies[1].val[1]

----------------------------------------------------------------------------
(* C16 *)

\* The step that simulates one Baseline day.
DcaDayStep == pc = "dca" /\ idx >= 1 /\ idx < Len(subset) /\ idx' = idx + 1

\* C16: the Baseline never drains or sells and does not depend on the zone:
\* its reserve starts at initialCapital and on every day, whatever zone
\* V_DCA gave that day, changes by the daily interest only
\* (cash[i] = cash[i-1] * (1 + 0.045/365)); its holdings never decrease and
\* grow by exactly the constant contribution bought at the day's price; its
\* contributed capital grows by exactly that constant.
C16_BaselineFrame ==
    [][DcaDayStep =>
          LET price == subset[idx + 1].price
              h     == s_dca'.cashHistory
          IN  /\ (idx = 1 => s_dca.cash = params.initialCapital)
              /\ s_dca.cashHistory[1] = params.initialCapital
              /\ s_dca'.cash = s_dca.cash + TimesDailyInterest(s_dca.cash)
              /\ h = Append(s_dca.cashHistory, s_dca'.cash)
              /\ h[Len(h)] = h[Len(h) - 1] + TimesDailyInterest(h[Len(h) - 1])
              /\ s_dca'.btc >= s_dca.btc
              /\ s_dca'.btc = s_dca.btc + (scaledDailyDCA \div price)
              /\ s_dca'.usd = s_dca.usd + scaledDailyDCA
              /\ scaledDailyDCA' = scaledDailyDCA]_vars

\* A Baseline day has been simulated, with a contribution and a reserve
\* bearing interest, on a day V_DCA sold on, after a day V_DCA drained on.
C16_Witness ==
    /\ pc = "dca"
    /\ idx = 3
    /\ zones[1] = 1
    /\ zones[2] = 3
    /\ scaledDailyDCA > 0
    /\ s_dca.btc > 0
    /\ s_dca.cash > params.initialCapital
    /\ s_vdca.cash # s_dca.cash

----------------------------------------------------------------------------
(* C17 *)

\* The zone the card shows for the returned snapshot is the last zone of
\* the returned zone sequence.
SnapshotAgrees ==
    RecommendationCard(result.recData, params).zone = result.zones[Len(result.zones)]

\* The final day of the run is one whose sentiment the override replaced.
FinalDayOverridden ==
    params.simulatePeak /\ InPeakWindow(subset[Len(subset)].date)

\* C17: for every run of at least two days and every parameter set,
\* simulatePeak = true included, classifying the final day from the
\* returned snapshot (price, ema20, ema50, cbbi of recData with the run's
\* t1 and t3) gives the zone V_DCA recorded for the final day.
C17_SnapshotClassifiesAsSimulator ==
    (Returned /\ Len(subset) >= 2) => SnapshotAgrees

\* The two agree in every run whose final day was classified with its own
\* sentiment index.
C17_AgreesWithoutOverride ==
    (Returned /\ Len(subset) >= 2 /\ ~FinalDayOverridden) => SnapshotAgrees

\* The snapshot carries the final day's own index, the sentiment sequence
\* the index the simulator classified with.
C17_SnapshotKeepsRawIndex ==
    (Returned /\ Len(subset) >= 2) =>
        /\ result.recData.cbbi = subset[Len(subset)].cbbi
        /\ FinalDayOverridden => result.cbbis[Len(result.cbbis)] = 95

----------------------------------------------------------------------------
(* C18 *)

\* A call in dry-run mode is under way or has returned.
DryRunCall == xpc # "idle" /\ call.dryRun

NoOrderPosted == \A i \in 1..Len(requests) : requests[i].method # "POST"

\* C18: in dry-run mode no order is submitted.  Whatever the zone, the
\* cash balance and the holding, executeStrategy, placeBuyOrder and
\* placeSellOrder make no POST request, every buy or sell action recorded
\* carries a result marked dryRun, and so does the result of an order
\* placed directly.
C18_DryRunSubmitsNothing ==
    DryRunCall =>
        /\ NoOrderPosted
        /\ results # Null =>
              \A i \in 1..Len(results.actions) : results.actions[i].result.dryRun
        /\ (xpc = "done" /\ call.fn # "executeStrategy") => ret = DryRunResult

\* A dry run on a Reduction day of an account holding BTC has recorded
\* its buy and its sell.
C18_Witness ==
    /\ xpc = "done"
    /\ call.fn = "executeStrategy"
    /\ call.dryRun
    /\ results # Null
    /\ Len(results.actions) = 2
    /\ results.actions[2].type = "sell"
    /\ broker.btc > 0
    /\ broker.cash > 0

----------------------------------------------------------------------------
(* C19 *)

\* executeStrategy has gone through its branch.
Executed == xpc \in {"return", "done"} /\ call.fn = "executeStrategy" /\ results # Null

Buys  == SelectSeq(results.actions, LAMBDA a : a.type = "buy")
Sells == SelectSeq(results.actions, LAMBDA a : a.type = "sell")

\* The buys C19 prescribes for today's zone, and the fresh input of it.
DocumentedBuys ==
    IF today.zone = 1
    THEN /\ Len(Buys) = 1
         /\ Buys[1].amount = (call.baseDCA * call.f1)
                + Min(broker.cash, (call.baseDCA * call.f3) + (broker.cash \div 15))
         /\ results.dailyContribution = call.baseDCA * call.f1
    ELSE IF today.zone = 2
    THEN /\ Len(Buys) = 1
         /\ Buys[1].amount = call.baseDCA
         /\ results.dailyContribution = call.baseDCA
    ELSE /\ Len(Buys) = (IF call.baseDCA * call.f3 > 0 THEN 1 ELSE 0)
         /\ Len(Buys) = 1 => Buys[1].amount = call.baseDCA * call.f3
         /\ results.dailyContribution = call.baseDCA * call.f3

\* The sells C19 prescribes: none in Zone 1 and 2, sellFactor% of the
\* account's BTC in Zone 3 whenever the account holds any.
DocumentedSells ==
    IF today.zone = 3 /\ broker.btc > 0
    THEN /\ Len(Sells) = 1
         /\ Sells[1].qty = (broker.btc * call.sellFactor) \div 100
    ELSE Len(Sells) = 0

\* C19: executeStrategy acts on today's zone as documented.  Zone 1 records
\* one buy of baseDCA*f1 + min(cash, baseDCA*f3 + cash/15) and no sell,
\* Zone 2 one buy of baseDCA and no sell, Zone 3 a buy of baseDCA*f3 only
\* when that is positive and a sell of sellFactor% of the BTC the account
\* holds whenever it holds any; dailyContribution is the fresh input of the
\* branch executed.
C19_ActsOnZoneAsDocumented ==
    Executed => (DocumentedBuys /\ DocumentedSells)

\* The buys and the reported contribution are as documented in every run.
C19_BuysAsDocumented ==
    Executed => DocumentedBuys

\* The sells are as documented in every run whose holding was read
\* correctly from the account.
C19_SellsWhenHoldingIsRead ==
    (Executed /\ account.totalBTC = broker.btc) => DocumentedSells

\* The only holding the run can have read besides the account's is none.
C19_UnreadHoldingIsZero ==
    Executed => account.totalBTC \in {broker.btc, 0}

----------------------------------------------------------------------------
(* C20 *)

\* The sentiment C20 prescribes for day d: 95 strictly inside the window
\* when simulatePeak is on, the day's own index otherwise.
PrescribedSentiment(d) ==
    IF params.simulatePeak /\ d.date > 20250715 /\ d.date < 20250901 THEN 95 ELSE d.cbbi

\* C20: the override precedes the classification and leaves the input
\* alone: with simulatePeak = false every day is classified with its own
\* sentiment index; with simulatePeak = true exactly the days dated strictly
\* after 2025-07-15 and strictly before 2025-09-01 are classified with 95,
\* the others with their own index; and no step of a run changes a record
\* of the input series.
C20_OverrideBeforeClassification ==
    [][Running =>
          /\ subset' = subset
          /\ VdcaDayStep =>
                LET d == subset[idx + 1]
                    c == PrescribedSentiment(d)
                IN  /\ (~params.simulatePeak => c = d.cbbi)
                    /\ day'.cbbi = c
                    /\ cbbis' = Append(cbbis, c)
                    /\ zones' = Append(zones, Classify(d.price, d.ema20, d.ema50, c,
                                                        params.t1, params.t3))
                    /\ subset'[idx + 1].cbbi = d.cbbi]_vars

\* A day inside the window has been classified with 95 and got another
\* zone than its own index gives, after a day dated 2025-07-15 that kept
\* its own index; the input still holds the day's own index.
C20_Witness ==
    /\ pc = "vdca"
    /\ idx = 3
    /\ params.simulatePeak
    /\ subset[2].date = 20250715
    /\ cbbis[1] = subset[2].cbbi
    /\ cbbis[2] = 95
    /\ subset[3].cbbi # 95
    /\ zones[2] # Classify(subset[3].price, subset[3].ema20, subset[3].ema50,
                            subset[3].cbbi, params.t1, params.t3)

----------------------------------------------------------------------------
(* C21 *)

\* The first entries of a strategy's histories are the seed of day 0.
SeedRow(st, initialCapital) ==
    /\ st.val[1] = initialCapital
    /\ st.investedHistory[1] = 0
    /\ st.cashHistory[1] = initialCapital

\* The callbacks of day 0 in the two walks.
VdcaSeedStep == pc = "vdca" /\ idx = 0 /\ idx' = 1

DcaSeedStep == pc = "dca" /\ idx = 0 /\ idx' = 1

\* C21: day 0 is a seed row only.  For V_DCA and the Baseline the first
\* value-history entry is initialCapital, the first invested-history entry
\* 0 and the first cash-history entry initialCapital, throughout the run;
\* the callback of day 0 changes nothing of the strategy (no buy, no sell,
\* no interest, no return entry) nor of the zone sequence, the sentiment
\* sequence and the zone counts, which are all still empty after it.
C21_SeedRowOnly ==
    [][/\ Running' =>
            /\ SeedRow(s_vdca', params'.initialCapital)
            /\ SeedRow(s_dca', params'.initialCapital)
       /\ VdcaSeedStep =>
            /\ s_vdca' = InitVdca(params.initialCapital)
            /\ s_vdca'.btc = 0 /\ s_vdca'.usd = 0 /\ s_vdca'.interest = 0
            /\ s_vdca'.cash = params.initialCapital
            /\ Len(s_vdca'.val) = 1 /\ s_vdca'.returns = <<>>
            /\ zones' = <<>> /\ cbbis' = <<>> /\ stats' = InitStats
       /\ DcaSeedStep =>
            /\ s_dca' = InitDca(params.initialCapital)
            /\ s_dca'.btc = 0 /\ s_dca'.usd = 0
            /\ s_dca'.cash = params.initialCapital
            /\ Len(s_dca'.val) = 1 /\ s_dca'.returns = <<>>]_vars

\* Both walks are past day 0 and the Baseline has simulated a day after
\* it, on a run that started with capital.
C21_Witness ==
    /\ pc = "dca"
    /\ idx = 2
    /\ params.initialCapital > 0
    /\ Len(s_vdca.val) = Len(subset)
    /\ Len(s_dca.val) = 2
    /\ SeedRow(s_dca, params.initialCapital)

----------------------------------------------------------------------------
(* C22 *)

\* The increments of the days simulated so far, each taken on the reserve
\* the day before left: entries 1..n of the cash history.
RECURSIVE IncrementsUpTo(_, _)
IncrementsUpTo(h, n) ==
    IF n = 0 THEN 0 ELSE IncrementsUpTo(h, n - 1) + TimesDailyInterest(h[n])

\* C22: on every simulated day of the V_DCA walk the interest step comes
\* first.  The day's increment is the daily rate applied to the reserve the
\* day started with; the reserve and interestAccrued both grow by it; the
\* zone is the classification of the day's data; the drain target and the
\* drained amount of an Accumulation day, the sale proceeds and the banked
\* amount of a Reduction day are all applied to the reserve after interest.
\* interestAccrued is the sum of the daily increments and never decreases.
C22_InterestFirst ==
    [][VdcaDayStep =>
          LET d       == subset[idx + 1]
              inc     == TimesDailyInterest(s_vdca.cash)
              reserve == s_vdca.cash + inc
              target  == (params.baseDCA * params.f3) + (reserve \div 15)
              t       == day'
          IN  /\ t.dailyInt = inc
              /\ inc >= 0
              /\ s_vdca'.interest = s_vdca.interest + inc
              /\ s_vdca'.interest >= s_vdca.interest
              /\ s_vdca'.interest =
                     IncrementsUpTo(s_vdca'.cashHistory, Len(s_vdca'.cashHistory) - 1)
              /\ t.zone = Classify(d.price, d.ema20, d.ema50, t.cbbi, params.t1, params.t3)
              /\ t.zone = 1 =>
                     /\ t.reserveInput = Min(reserve, target)
                     /\ s_vdca'.cash = reserve - t.reserveInput
              /\ t.zone = 2 => s_vdca'.cash = reserve
              /\ t.zone = 3 =>
                     s_vdca'.cash = reserve + (t.sellBTC * d.price)
                                      + (IF t.unspent > 0 THEN t.unspent ELSE 0)]_vars

\* Two days have earned interest, the second an Accumulation day whose
\* drain target, a fifteenth of the reserve, is larger taken after the
\* interest than taken before it.
C22_Witness ==
    /\ pc = "vdca"
    /\ idx = 3
    /\ day.zone = 1
    /\ day.dailyInt > 0
    /\ s_vdca.interest > day.dailyInt
    /\ day.reserveInput = s_vdca.cashHistory[2] + day.dailyInt - s_vdca.cash
    /\ day.reserveInput >
          (params.baseDCA * params.f3) + (s_vdca.cashHistory[2] \div 15)

----------------------------------------------------------------------------
(* C23 *)

\* The arguments C23 is about.
NonNegativeArguments ==
    /\ params.initialCapital >= 0
    /\ params.baseDCA >= 0
    /\ params.f1 >= 0
    /\ params.f3 >= 0
    /\ params.sellFactor \in 0..100
    /\ \A i \in 1..Len(subset) : subset[i].price > 0

\* C23: with non-negative arguments, a sellFactor of 0..100 percent and
\* positive prices, V_DCA never holds a negative reserve or a negative
\* amount of the asset, on any day; a drained amount lies between 0 and the
\* reserve it is taken from; every recorded portfolio value is the asset
\* held times the day's price plus the reserve of that day.
C23_NonNegativeHoldings ==
    [][(Running' /\ NonNegativeArguments') =>
          /\ s_vdca'.cash >= 0
          /\ s_vdca'.btc >= 0
          /\ \A i \in 1..Len(s_vdca'.cashHistory) : s_vdca'.cashHistory[i] >= 0
          /\ s_vdca'.val[1] = (0 * subset'[1].price) + s_vdca'.cashHistory[1]
          /\ VdcaDayStep =>
                LET reserve == ReserveAfterInterest(s_vdca.cash)
                    t       == day'
                    v       == (s_vdca'.btc * subset[idx + 1].price) + s_vdca'.cash
                IN  /\ t.reserveInput >= 0
                    /\ t.reserveInput <= reserve
                    /\ t.sellBTC >= 0
                    /\ t.sellBTC <= s_vdca.btc
                    /\ t.newVal = v
                    /\ s_vdca'.val = Append(s_vdca.val, v)
                    /\ s_vdca'.cashHistory = Append(s_vdca.cashHistory, s_vdca'.cash)]_vars

\* A Reduction day has sold the whole holding bought the day before, and
\* the value recorded is the reserve alone.
C23_Witness ==
    /\ pc = "vdca"
    /\ idx = 3
    /\ params.sellFactor = 100
    /\ day.zone = 3
    /\ day.sellBTC > 0
    /\ s_vdca.btc = 0
    /\ s_vdca.cash > 0
    /\ s_vdca.val[3] = s_vdca.cash

----------------------------------------------------------------------------
(* C24 *)

Compared == policyResult # Null

\* The three classifiers give one zone.
SameZone ==
    /\ policyResult.analysis.zone = policyResult.simulator.zone
    /\ policyResult.card.zone = policyResult.simulator.zone

\* The helper gives the simulator's fresh injection, drained amount and
\* total buy.
HelperAgrees ==
    /\ policyResult.helper.freshInput = policyResult.simulator.freshInput
    /\ policyResult.helper.drainAmount = policyResult.simulator.reserveInput
    /\ policyResult.helper.totalBuyUSD = policyResult.simulator.actualBuyUSD

\* The amounts the card computes for an Accumulation day are the
\* simulator's.
CardComputesSame ==
    policyResult.card.zone = 1 =>
        /\ policyResult.card.target = policyResult.simulator.freshInput
        /\ policyResult.card.fromReserve = policyResult.simulator.reserveInput

\* C24 as stated: the copies of the policy agree for all inputs.  The
\* classifiers of calculateAndStoreDailyAnalysis and of RecommendationCard
\* give the simulator's zone, and the helpers and the card give the
\* simulator's fresh injection, drained amount and total buy.
C24_Original_CopiesAgree ==
    Compared =>
        /\ SameZone
        /\ HelperAgrees
        /\ CardComputesSame
        /\ policyResult.card.buy = policyResult.simulator.actualBuyUSD

\* C24, amended: the classifiers and the helpers agree with the simulator
\* for all inputs, and so do the fresh injection and the drained amount the
\* card computes; the total buy the card shows on an Accumulation day is
\* the simulator's rounded to the nearest dollar, at most half a dollar
\* away from it, and the simulator's total itself on the other days.
C24_CopiesAgreeUpToDisplay ==
    Compared =>
        /\ SameZone
        /\ HelperAgrees
        /\ CardComputesSame
        /\ policyResult.card.buy =
              (IF policyResult.card.zone = 1
               THEN RoundDollars(policyResult.simulator.actualBuyUSD)
               ELSE policyResult.simulator.actualBuyUSD)
        /\ Abs(policyResult.card.buy - policyResult.simulator.actualBuyUSD) <= 50

\* An Accumulation day whose drain is a fifteenth of the reserve and not a
\* whole number of dollars: the card shows another total than the
\* simulator buys.
C24_Witness ==
    /\ Compared
    /\ policyResult.simulator.zone = 1
    /\ policyResult.simulator.reserveInput > 0
    /\ policyResult.simulator.reserveInput < policyCall.cash
    /\ policyResult.card.buy # policyResult.simulator.actualBuyUSD

----------------------------------------------------------------------------
(* C28 *)

\* A call of executeStrategy is under way or has ended.
StrategyCall == xpc # "idle" /\ call.fn = "executeStrategy"

\* The daily-analysis lookup gave a record; the account check succeeded.
AnalysisFound == today # Null

AccountChecked ==
    \E i \in 1..Len(requests) :
        requests[i].path = "/v2/account" /\ requests[i].answer = "ok"

Asked(path) == \E i \in 1..Len(requests) : requests[i].path = path

\* No order is submitted unless both checks succeeded before, and a call
\* in which one of them failed asks neither for positions nor for orders.
ChecksBeforeOrders ==
    /\ (Asked("/v2/orders") \/ Asked("/v2/positions")) => (AnalysisFound /\ AccountChecked)
    /\ Asked("/v2/account") => AnalysisFound
    /\ \A i \in 1..Len(requests) :
          requests[i].path \in {"/v2/orders", "/v2/positions"} =>
              \E j \in 1..(i - 1) :
                  requests[j].path = "/v2/account" /\ requests[j].answer = "ok"

\* The call has ended after one of the two checks failed.
EndedOnFailedCheck == xpc = "done" /\ (~AnalysisFound \/ ~AccountChecked)

\* C28: executeStrategy submits no order unless the lookup gave a record
\* and the account check succeeded earlier in the call; if either fails
\* it returns a result with success = false and has asked neither for
\* positions nor for orders.
C28_FailureIsReturned ==
    StrategyCall =>
        /\ ChecksBeforeOrders
        /\ EndedOnFailedCheck => (~ret.thrown /\ ~ret.success)

\* No order is submitted unless both checks succeeded earlier in the
\* call; if the lookup reports a failure or no record, or the account
\* check fails, the call returns success = false, and if the lookup
\* throws, the call throws with it; in every one of these cases it has
\* asked neither for positions nor for orders.
C28_ChecksBeforeOrders ==
    StrategyCall =>
        /\ ChecksBeforeOrders
        /\ EndedOnFailedCheck =>
              /\ ~ret.success
              /\ ~Asked("/v2/orders")
              /\ ~Asked("/v2/positions")
              /\ ret.thrown => (~AnalysisFound /\ requests = <<>>)
        /\ (xpc = "done" /\ AnalysisFound /\ AccountChecked) => (ret.success /\ ~ret.thrown)

\* A live call on a Reduction day has submitted a buy and a sell after
\* both checks succeeded.
C28_OrdersAfterChecks ==
    /\ StrategyCall
    /\ xpc = "done"
    /\ ~call.dryRun
    /\ Len(requests) = 4
    /\ requests[3].side = "buy"
    /\ requests[4].side = "sell"

----------------------------------------------------------------------------
(* C29 *)

\* A live call of executeStrategy is past its buy.
LiveBought ==
    /\ StrategyCall
    /\ ~call.dryRun
    /\ xpc \in {"sell", "return", "done"}
    /\ results # Null

BuyPosts == SelectSeq(requests, LAMBDA r : r.method = "POST" /\ r.side = "buy")

----------------------------------------------------------------------------
(* C25 *)

Ready == { c \in Clients : clients[c].at = "ready" }

\* C25: whatever the interleaving of concurrent initDatabase calls, at
\* most one database is created per session, every caller gets that same
\* database, and the rows committed so far are visible to every later
\* read.
C25_OneDatabasePerSession ==
    /\ Len(databases) <= 1
    /\ \A c \in Ready, d \in Ready : clients[c].handle = clients[d].handle
    /\ committed \subseteq getMarketData

\* A call that finds the database set gets it without creating another,
\* and the module reads and writes the database created last.
C25_LaterCallsShare ==
    [][/\ db' = Len(databases')
       /\ \A c \in Clients :
             (db # 0 /\ clients[c].at = "out" /\ clients'[c].at # "out") =>
                 /\ clients'[c] = [at |-> "ready", handle |-> db]
                 /\ databases' = databases]_vars

\* As long as one database was created, all rows committed are read back.
C25_OneDatabaseKeepsRows ==
    Len(databases) <= 1 => getMarketData = committed

\* A database is created only by a call that started while there was none.
C25_CreatedByWaitingCall ==
    [][Len(databases') > Len(databases) =>
          \E c \in Clients :
              /\ clients[c].at = "loading"
              /\ clients'[c] = [at |-> "ready", handle |-> Len(databases) + 1]]_vars

----------------------------------------------------------------------------
(* C26 *)

\* A step of upsertMarketData on an initialized module.
UpsertStep == db # 0 /\ clients' = clients /\ upsert' # Null

OneRowPerDate(table) == \A r \in table, q \in table : r.date = q.date => r = q

\* The row a batch leaves for a date: the last one it has for it.
LastFor(batch, d) ==
    LET at == { i \in 1..Len(batch) : batch[i].date = d }
    IN  batch[CHOOSE i \in at : \A j \in at : j <= i]

DatesOf(batch) == { batch[i].date : i \in 1..Len(batch) }

\* C26: upsertMarketData is all-or-nothing.  If inserting a row of the
\* batch fails, the call ends in the rethrown error, market_data is as it
\* was before the call and nothing is saved to localStorage.  If every row
\* succeeds the batch is committed, and what is saved then holds it.  Every
\* table holds at most one row per date; after a committed call it holds,
\* for every date of the batch, the batch's latest row for that date, and
\* the rows of the other dates as they were.
C26_AllOrNothing ==
    [][/\ \A n \in 1..Len(databases') : OneRowPerDate(databases'[n])
       /\ storage' # Null => OneRowPerDate(storage'.rows)
       /\ UpsertStep =>
             LET batch  == upsert'.batch
                 before == databases[db]
                 after  == databases'[db]
                 fails  == \E i \in 1..Len(batch) : ~Insertable(batch[i])
             IN  /\ db' = db
                 /\ \A n \in 1..Len(databases) : n # db => databases'[n] = databases[n]
                 /\ IF fails
                    THEN /\ upsert'.outcome = "thrown"
                         /\ after = before
                         /\ storage' = storage
                         /\ ~upsert'.saved
                    ELSE /\ upsert'.outcome = "committed"
                         /\ \A d \in DatesOf(batch) :
                               { r \in after : r.date = d } = { LastFor(batch, d) }
                         /\ { r \in after : r.date \notin DatesOf(batch) }
                               = { r \in before : r.date \notin DatesOf(batch) }
                         /\ storage' = (IF upsert'.saved THEN Saved(after) ELSE storage)]_vars

\* A batch whose second row failed after its first was inserted has been
\* rolled back on a table that held rows: the first row's price is not in
\* the table, the earlier rows are.
C26_Witness ==
    /\ upsert # Null
    /\ upsert.outcome = "thrown"
    /\ Len(upsert.batch) = 2
    /\ Insertable(upsert.batch[1])
    /\ db # 0
    /\ upsert.batch[1] \notin databases[db]
    /\ Cardinality(databases[db]) = 2
    /\ storage = Saved(databases[db])

----------------------------------------------------------------------------
(* C27: the three sources of fetchFromAPI *)

Sources == <<DIRECT, PROXIED, ALT_PROXIED>>

NetworkError(answer) == answer.k = "rejected"

NonOkStatus(answer) == answer.k = "response" /\ answer.status \notin 200..299

SourceFailed(answer) == NetworkError(answer) \/ NonOkStatus(answer)

\* The body is no JSON, or is the JSON null, or has a key that is no timestamp.
CannotBeParsed(body) ==
    \/ body.k = "html"
    \/ body.data = Null
    \/ \E o \in {body.data.Price, body.data.BTC} : o.k = "object" /\ o.other # {}

AllSourcesFailed ==
    Len(fetchLog) = 3 /\ \A i \in 1..3 : SourceFailed(fetchLog[i].answer)

\* C27: fetchFromAPI asks the direct address, then corsproxy.io, then
\* allorigins.win: the i-th request goes to the i-th source, a request is
\* made only after every earlier one failed by a network error or a non-OK
\* status, once the requests are over the last one succeeded or all three
\* failed, and the call returns the empty list when all three failed or the
\* response cannot be parsed; it never ends by throwing.
C27_SourcesInOrder ==
    /\ Len(fetchLog) <= 3
    /\ \A i \in 1..Len(fetchLog) : fetchLog[i].url = Sources[i]
    /\ \A i \in 1..Len(fetchLog) - 1 : SourceFailed(fetchLog[i].answer)
    /\ fpc = "direct" => fetchLog = <<>>
    /\ fpc = "proxy" => Len(fetchLog) = 1 /\ SourceFailed(fetchLog[1].answer)
    /\ fpc = "alt" => Len(fetchLog) = 2 /\ SourceFailed(fetchLog[2].answer)
    /\ fpc \in {"parse", "done"} =>
          /\ fetchLog # <<>>
          /\ ~SourceFailed(fetchLog[Len(fetchLog)].answer) \/ AllSourcesFailed
    /\ fpc = "done" =>
          /\ fetchRet.k = "returned"
          /\ AllSourcesFailed => fetchRet.value = <<>>
          /\ (~AllSourcesFailed /\ CannotBeParsed(rawResponse.body)) => fetchRet.value = <<>>
    /\ fpc # "done" => fetchRet = Null

\* The direct request met a network error, corsproxy.io answered with an
\* error status, allorigins.win answered with a page that is no JSON, and
\* the call has returned.
C27_Witness ==
    /\ fpc = "done"
    /\ Len(fetchLog) = 3
    /\ NetworkError(fetchLog[1].answer)
    /\ NonOkStatus(fetchLog[2].answer)
    /\ ~SourceFailed(fetchLog[3].answer)
    /\ CannotBeParsed(fetchLog[3].answer.body)
    /\ fetchRet = ReturnedList(<<>>)

TypeOK == pc \in {"idle", "vdca", "dca", "metrics", "return", "done"}

====
